---- MODULE Spec2Model ----
(***************************************************************************)
(* Container lifecycle engine of porto (src/container.cpp).                *)
(*                                                                         *)
(* The in-memory fields of every TContainer, the persisted properties the  *)
(* lifecycle reads back, and the kernel facts the handlers query (freezer  *)
(* cgroup population and freezer state) are the state.  Every handler is   *)
(* one atomic action; a handler that calls other handlers (Stop calling    *)
(* Stop on children, Restore calling Start on ancestors) is an operator    *)
(* over a state record, so the whole call tree is one step.                *)
(***************************************************************************)
EXTENDS Integers, Sequences, FiniteSets, TLC

\* ---------------------------------------------------------------- bounds
\* Process ids: the task of container c runs as pid c, and exit events carry
\* any pid up to MaxPid (so some events name no task at all).
MaxPid == 5

\* Respawn events are delivered while the respawn count is below MaxCount.
MaxCount == 3
\* The holder's queue keeps at most MaxQueued Respawn events of a container.
MaxQueued == 2

\* The width of the unsigned integers (uint64_t in the code), scaled down:
\* sums of property values wrap modulo 2^UintBits.
UintBits == 3

\* GetTotalMemory(), and daemon.memory_guarantee_reserve of the configuration.
TotalMemory == 2
MemoryGuaranteeReserve == 0

\* The signals of a waiter are counted up to MaxSignals.
MaxSignals == 2

\* ------------------------------------------------------ program constants
\* The exit status DeliverOom reports for a container killed by the OOM killer.
SIGKILL == 9

\* PORTO_ROOT_CONTAINER_ID: the porto root, parent of top-level containers.
PortoRootId == 1

\* The container tree: ids of user containers and their parents.  A chain
\* a (2), a/b (3), a/b/c (4) gives a container with a parent, a child and a
\* grandchild; a/d (5) is a sibling of a/b.
Containers == {2, 3, 4, 5}
ParentOf == [c \in Containers |-> IF c = 5 THEN 2 ELSE c - 1]

\* The containers that were created before the first request.
Created == {2, 3}

Pids == 1..MaxPid

\* The pid TTask::Start obtains for the root process of container c.
PidOf(c) == c

\* Whether the root property of the container names a regular file (an image
\* mounted through a loop device) rather than a directory.
RootIsFile == [c \in Containers |-> c = 3]

States == {"stopped", "running", "paused", "meta", "dead"}

NoTask == [present |-> FALSE, pid |-> 0, running |-> FALSE]

\* No Pause is being followed.
NoStates == [c \in Containers |-> "none"]

\* The clients that wait, each with the one waiter it makes.
WaiterIds == {1, 2}

\* A client that has not asked to wait: there is no waiter object.  made: the
\* waiter was constructed; held: the client's Waiter member refers to it, so
\* the weak references of the containers have not expired; client: whether the
\* client is connected and its container can be found; on: the container
\* waited for; queued: the waiter was put on the container's list; signals and
\* callbacks: the calls of Signal and of Callback; sawState and sawData: the
\* container's State and its state data at the last Signal.
NoWaiter ==
    [made |-> FALSE, held |-> FALSE, client |-> "connected", on |-> 0,
     queued |-> FALSE, signals |-> 0, callbacks |-> 0,
     sawState |-> "none", sawData |-> "none"]

\* The keys and values of the pairs in the records of a node.
KvKeys == {"cpu_priority", "net_priority"}

\* The flags the properties are constructed with.
Properties == KvKeys \cup {"user"}
PropertyFlags ==
    [p \in Properties |->
        IF p = "cpu_priority" THEN {"PARENT_RO", "PERSISTENT"}
        ELSE IF p = "user" THEN {"SUPERUSER", "PARENT_DEF", "PERSISTENT"}
        ELSE {"PARENT_RO"}]

\* staticProperty, dynamicProperty: the states in which a property is written.
staticProperty == {"stopped"}
dynamicProperty == {"stopped", "running", "paused", "meta"}
PropertyStates ==
    [p \in Properties |-> IF p = "cpu_priority" THEN dynamicProperty ELSE staticProperty]
KvVals == {1, 2}
KvPairs == [key : KvKeys, val : KvVals]

\* The records (kv::TNode messages) that are appended: one pair, two pairs
\* with different keys, or two pairs with the same key.
KvSingles == {<<x>> : x \in KvPairs}
KvRecords ==
    KvSingles \cup
    {<<x, y>> : x \in {z \in KvPairs : z.key = "cpu_priority"}, y \in {z \in KvPairs : z.key = "net_priority"}} \cup
    {r \in {<<x, y>> : x \in KvPairs, y \in KvPairs} :
        r[1].key = r[2].key /\ r[1].val # r[2].val}

\* A record of a file that cannot be parsed.
Corrupt == <<[key |-> "", val |-> 0]>>

\* A map entry for a node that was not loaded.
Absent == [loaded |-> FALSE, node |-> <<>>]

\* A node's file holds at most MaxRecords records.
MaxRecords == 3

\* SetProperty is followed while the node holds fewer than MaxWrites records.
MaxWrites == 2

\* The values a client gives a property: a priority, and a number that is no
\* priority.
PropertyInputs == {1, 100}

\* Nothing was loaded yet.
NoKvOut ==
    [op |-> "none", node |-> <<>>, map |-> [c \in Containers |-> Absent],
     props |-> [p \in KvKeys |-> 0], err |-> "Success"]

\* The threads of the daemon: workers that serve client requests.
\* The handles of the traffic classes of one interface; 1 is the root class.
TcHandles == {1, 2, 3, 4}

\* The trees of classes: every class but the root has a parent.
TcTrees == {f \in [TcHandles -> TcHandles \cup {0}] :
               f[1] = 0 /\ \A h \in TcHandles \ {1} : f[h] # 0 /\ f[h] < h}

\* classes, parent: the classes in the kernel.  The rest tells of the last
\* DelTrafficClass: the class asked for, the classes before it, the handles it
\* collected when the class was busy, the delete that was made to fail, the
\* classes deleted in their order, the result.
NoTc == [classes |-> {}, parent |-> [h \in TcHandles |-> 0], handle |-> 0,
         was |-> {}, handles |-> <<>>, failAt |-> 0, deleted |-> <<>>,
         err |-> "Success"]

\* The width of the times in the model (uint64_t in the code), in bits.
TimeBits == 12

\* state, death, aging: the state of a container, its raw_death_time (ms) and
\* its aging_time (s); now: the clock (ms); can: the last CanRemoveDead.
NoAge == [state |-> "stopped", death |-> 0, aging |-> 0, now |-> 0, can |-> FALSE,
          asked |-> FALSE]

\* The network interfaces of the host, by their index.
Interfaces == {1, 2, 3}

\* present: the running interfaces of the kernel; qdisc, rootClasses: those
\* that have the root qdisc with the cgroup filter, and the default and
\* porto-root classes; links, ifaces: the members Links and ifaces of the
\* manager; covered: the interfaces of the last class creation; fresh: no
\* interface came or went since the last update.
NoNetw == [present |-> {}, qdisc |-> {}, rootClasses |-> {}, links |-> {},
           ifaces |-> {}, covered |-> {}, fresh |-> FALSE, err |-> "Success"]

Threads == {1, 2}

\* No thread owns a lock (owner 0) or is inside an operation; allow is
\* TContainer::AllowHolderUnlock.  The stack of a thread holds a frame for each
\* nested Stop: its container, the children still to be visited and the
\* position in the code.
NoLocks ==
    [holder |-> 0, container |-> [c \in Containers |-> 0], net |-> 0,
     stack |-> [t \in Threads |-> <<>>], allow |-> TRUE]

VARIABLES
    Exists,          \* container is in the holder's map
    State,           \* TContainer::State
    LeafCgroups,     \* TContainer::LeafCgroups is non-empty
    Tclass,          \* TContainer::Tclass: 0 = nullptr, else the class handle minor
    Task,            \* TContainer::Task: handle, pid, TTask state Started
    Source,          \* TContainer::Source / Efd: OOM source registered in the epoll loop
    RawLoopDev,      \* property P_RAW_LOOP_DEV (-1 = none)
    RawRootPid,      \* property P_RAW_ROOT_PID (-1 = no value stored)
    LostAndRestored, \* TContainer::LostAndRestored
    RunningChildren, \* TContainer::RunningChildren
    Isolate,         \* property P_ISOLATE
    CommandEmpty,    \* property P_COMMAND is the empty string
    CgProcs,         \* kernel: the freezer cgroup of the container has processes
    Frozen,          \* kernel: the freezer cgroup of the container was frozen
    NetEnabled,      \* config().network().enabled()
    Crashed,         \* the daemon aborted (failed PORTO_ASSERT or bad dereference)
    ExitStatus,      \* data D_EXIT_STATUS
    OomKilled,       \* data D_OOM_KILLED
    DeathTime,       \* property P_RAW_DEATH_TIME has a value
    RespawnCount,    \* data D_RESPAWN_COUNT
    RespawnQueued,   \* the number of Respawn events for the container in the holder's queue
    RespawnProp,     \* property P_RESPAWN
    MaxRespawns,     \* property P_MAX_RESPAWNS
    MemGuarantee,    \* property P_MEM_GUARANTEE
    MemLimit,        \* property P_MEM_LIMIT
    LowLimitKnob,    \* kernel: the memory cgroup has memory.low_limit_in_bytes
    Waiters,         \* TContainer::Waiters: the waiters the list refers to
    Waiter,          \* the TContainerWaiter objects and their clients
    DataState,       \* data D_STATE
    SoftLimit,       \* kernel: memory.soft_limit_in_bytes of the container's cgroup
    Acquired,        \* TContainer::Acquired
    Locks,           \* the owners of the holder, container and network locks, and where each thread is
    Kv,              \* the files of the key-value storage: the records appended to each node
    KvOut,           \* what the last LoadNode or Restore of the storage returned
    PropValue,       \* the values of the properties that were set (0: not set, the default applies)
    KvRemoved,       \* per container: its key-value node was removed, and what the container held then
    Tc,              \* the traffic classes of one interface in the kernel, and the last DelTrafficClass
    Age,             \* the clock and the last CanRemoveDead of one container
    Netw,            \* the interfaces in the kernel and in the network manager
    last,            \* the operation that ran last, its target and its result
    before           \* the states of the containers when the last Pause began

vars == <<Exists, State, LeafCgroups, Tclass, Task, Source, RawLoopDev,
          RawRootPid, LostAndRestored, RunningChildren, Isolate, CommandEmpty,
          CgProcs, Frozen, NetEnabled, Crashed, ExitStatus, OomKilled, DeathTime,
          RespawnCount, RespawnQueued, RespawnProp, MaxRespawns, MemGuarantee,
          MemLimit, LowLimitKnob, Waiters,
          Waiter,
          DataState,
          SoftLimit,
          Acquired,
          Locks,
          Kv,
          KvOut,
          PropValue,
          KvRemoved,
          Tc,
          Age,
          Netw,
          last, before>>

\* The state as one record, so that handlers compose.
Cur ==
    [exists |-> Exists, state |-> State, cgroups |-> LeafCgroups,
     tclass |-> Tclass, task |-> Task, source |-> Source, loop |-> RawLoopDev,
     rootpid |-> RawRootPid, lost |-> LostAndRestored, rc |-> RunningChildren,
     isolate |-> Isolate, cmdEmpty |-> CommandEmpty, procs |-> CgProcs,
     frozen |-> Frozen, net |-> NetEnabled, crashed |-> Crashed,
     exitStatus |-> ExitStatus, oomKilled |-> OomKilled, deathTime |-> DeathTime,
     respawnCount |-> RespawnCount, respawnQueued |-> RespawnQueued,
     respawn |-> RespawnProp, maxRespawns |-> MaxRespawns,
     memGuarantee |-> MemGuarantee, memLimit |-> MemLimit,
     knob |-> LowLimitKnob,
     waiters |-> Waiters,
     waiter |-> Waiter,
     dataState |-> DataState,
     softLimit |-> SoftLimit,
     acquired |-> Acquired,
     locks |-> Locks,
     kv |-> Kv,
     kvOut |-> KvOut,
     propValue |-> PropValue,
     kvRemoved |-> KvRemoved,
     tc |-> Tc,
     age |-> Age,
     netw |-> Netw,
     err |-> "Success"]

Becomes(s) ==
    /\ Exists' = s.exists
    /\ State' = s.state
    /\ LeafCgroups' = s.cgroups
    /\ Tclass' = s.tclass
    /\ Task' = s.task
    /\ Source' = s.source
    /\ RawLoopDev' = s.loop
    /\ RawRootPid' = s.rootpid
    /\ LostAndRestored' = s.lost
    /\ RunningChildren' = s.rc
    /\ Isolate' = s.isolate
    /\ CommandEmpty' = s.cmdEmpty
    /\ CgProcs' = s.procs
    /\ Frozen' = s.frozen
    /\ NetEnabled' = s.net
    /\ Crashed' = s.crashed
    /\ ExitStatus' = s.exitStatus
    /\ OomKilled' = s.oomKilled
    /\ DeathTime' = s.deathTime
    /\ RespawnCount' = s.respawnCount
    /\ RespawnQueued' = s.respawnQueued
    /\ RespawnProp' = s.respawn
    /\ MaxRespawns' = s.maxRespawns
    /\ MemGuarantee' = s.memGuarantee
    /\ MemLimit' = s.memLimit
    /\ LowLimitKnob' = s.knob
    /\ Waiters' = s.waiters
    /\ Waiter' = s.waiter
    /\ DataState' = s.dataState
    /\ SoftLimit' = s.softLimit
    /\ Acquired' = s.acquired
    /\ Locks' = s.locks
    /\ Kv' = s.kv
    /\ KvOut' = s.kvOut
    /\ PropValue' = s.propValue
    /\ KvRemoved' = s.kvRemoved
    /\ Tc' = s.tc
    /\ Age' = s.age
    /\ Netw' = s.netw

Ok(s) == [s EXCEPT !.err = "Success"]
Fail(s, e) == [s EXCEPT !.err = e]
Abort(s) == [s EXCEPT !.crashed = TRUE, !.err = "Aborted"]

\* ------------------------------------------------------------- the tree
IsUser(c) == c \in Containers

RECURSIVE AncestorsOf(_)
AncestorsOf(c) ==
    IF ~IsUser(ParentOf[c]) THEN {}
    ELSE {ParentOf[c]} \cup AncestorsOf(ParentOf[c])

RECURSIVE SetToSeq(_)
SetToSeq(S) ==
    IF S = {} THEN <<>>
    ELSE LET m == CHOOSE x \in S : \A y \in S : x <= y
         IN  <<m>> \o SetToSeq(S \ {m})

\* TContainer::Children, in creation order (ids grow with creation).
Children(s, c) == SetToSeq({d \in Containers : ParentOf[d] = c /\ s.exists[d]})

RECURSIVE Subtree(_)
Subtree(c) == {c} \cup UNION {Subtree(d) : d \in {e \in Containers : ParentOf[e] = c}}

\* The roots are started by the daemon before any client request: they are
\* Meta, own no task, and own a traffic class when networking is enabled.
StateOf(s, c) == IF IsUser(c) THEN s.state[c] ELSE "meta"
TclassOf(s, c) == IF IsUser(c) THEN s.tclass[c] ELSE IF s.net THEN PortoRootId ELSE 0
TaskRunning(s, c) == IsUser(c) /\ s.task[c].present /\ s.task[c].running

\* TContainer::FindRunningParent
RECURSIVE FindRunningParent(_, _)
FindRunningParent(s, c) ==
    LET p == ParentOf[c] IN
    IF ~IsUser(p) THEN 0
    ELSE IF TaskRunning(s, p) THEN p
    ELSE FindRunningParent(s, p)

\* TContainer::UseParentNamespace
UseParentNamespace(s, c) ==
    IF s.isolate[c] THEN FALSE ELSE FindRunningParent(s, c) # 0

\* ------------------------------------------------------- key-value storage
\* The index of the first pair of node with the key, 0 if there is none.
RECURSIVE FindKey(_, _, _)
FindKey(node, key, j) ==
    IF j > Len(node) THEN 0
    ELSE IF node[j].key = key THEN j
    ELSE FindKey(node, key, j + 1)

\* TKeyValueStorage::Merge
RECURSIVE Merge(_, _)
Merge(node, next) ==
    IF next = <<>> THEN node
    ELSE LET j == FindKey(node, Head(next).key, 1)
         IN  Merge(IF j # 0 THEN [node EXCEPT ![j].val = Head(next).val]
                   ELSE Append(node, Head(next)), Tail(next))

\* The loop of LoadNode: records are read and merged until one cannot be
\* read, at the end of the file or at a corrupt record.
RECURSIVE MergeRest(_, _)
MergeRest(node, file) ==
    IF file = <<>> \/ Head(file) = Corrupt THEN node
    ELSE MergeRest(Merge(node, Head(file)), Tail(file))

\* TKeyValueStorage::LoadNode: the first record is read into the node, the
\* others are merged into it; only a first record that cannot be read is an
\* error.
LoadNode(file) ==
    IF file = <<>> \/ Head(file) = Corrupt
    THEN [node |-> <<>>, err |-> "Unknown"]
    ELSE [node |-> MergeRest(Head(file), Tail(file)), err |-> "Success"]

\* TKeyValueStorage::AppendNode
AppendNode(file, record) == Append(file, record)

\* The set of a property value: the value is stored, and appended to the node
\* if the property is PERSISTENT.
SetValue(s, c, property, v) ==
    [s EXCEPT !.propValue[c][property] = v,
              !.kv[c] = IF "PERSISTENT" \in PropertyFlags[property]
                        THEN AppendNode(@, <<[key |-> property, val |-> v]>>)
                        ELSE @]

\* TPropertySet::Restore: the pairs of the node are applied in their order to
\* a map of defaults.
RECURSIVE RestoreProps(_, _)
RestoreProps(map, node) ==
    IF node = <<>> THEN map
    ELSE RestoreProps([map EXCEPT ![Head(node).key] = Head(node).val], Tail(node))

\* TKeyValueStorage::Restore over the listed nodes: each is loaded and put
\* into the map; the first node that fails to load ends the restore.
RECURSIVE KvRestore(_, _, _)
KvRestore(kv, names, map) ==
    IF names = <<>> THEN [map |-> map, err |-> "Success"]
    ELSE IF LoadNode(kv[Head(names)]).err # "Success"
         THEN [map |-> map, err |-> LoadNode(kv[Head(names)]).err]
    ELSE KvRestore(kv, Tail(names),
                   [map EXCEPT ![Head(names)] =
                       [loaded |-> TRUE, node |-> LoadNode(kv[Head(names)]).node]])

\* --------------------------------------------------------------- Acquire
\* TContainer::IsAcquired
RECURSIVE IsAcquired(_, _)
IsAcquired(s, c) ==
    s.acquired[c] \/ (IsUser(ParentOf[c]) /\ IsAcquired(s, ParentOf[c]))

\* Acquire that looks at the container's own flag only.
AcquireOwnOnly(s, c) ==
    IF ~s.acquired[c] THEN Ok([s EXCEPT !.acquired[c] = TRUE])
    ELSE Fail(s, "Busy")

\* TContainer::Acquire; the result true is the error Success, false is Busy.
Acquire(s, c) ==
    IF ~IsAcquired(s, c) THEN Ok([s EXCEPT !.acquired[c] = TRUE])
    ELSE Fail(s, "Busy")

\* TContainer::Release
Release(s, c) ==
    IF ~s.acquired[c] THEN Abort(s) ELSE Ok([s EXCEPT !.acquired[c] = FALSE])

\* --------------------------------------------------------------- waiters
\* A weak reference that never expires.
LockAlways(s, w) == TRUE

\* std::weak_ptr::lock / expired on an entry of Waiters: the waiter is there
\* while its client's Waiter member refers to it.
Lock(s, w) == s.waiter[w].held

\* TContainerWaiter::Signal
Signal(s, w, c) ==
    LET x == s.waiter[w]
        n == IF x.signals < MaxSignals THEN x.signals + 1 ELSE x.signals
    IN  IF x.client = "gone" THEN [s EXCEPT !.waiter[w].signals = n]
        ELSE [s EXCEPT !.waiter[w] =
                 [x EXCEPT !.signals = n,
                           !.callbacks = IF x.client = "connected" THEN @ + 1 ELSE @,
                           !.sawState = s.state[c],
                           !.sawData = s.dataState[c],
                           !.held = FALSE]]

\* TContainer::CleanupWaiters
CleanupWaiters(s, c) ==
    [s EXCEPT !.waiters[c] = {w \in @ : Lock(s, w)}]

RECURSIVE SignalEach(_, _, _)
SignalEach(s, ws, c) ==
    IF ws = <<>> THEN s
    ELSE SignalEach(IF Lock(s, Head(ws)) THEN Signal(s, Head(ws), c) ELSE s,
                    Tail(ws), c)

\* TContainer::NotifyWaiters
NotifyWaitersCleaned(s1, c) == SignalEach(s1, SetToSeq(s1.waiters[c]), c)
NotifyWaiters(s, c) ==
    IF s.state[c] # "running" THEN NotifyWaitersCleaned(CleanupWaiters(s, c), c)
    ELSE s

\* TContainer::AddWaiter
AddWaiter(s, c, w) ==
    IF s.state[c] = "running"
    THEN [CleanupWaiters(s, c) EXCEPT !.waiters[c] = @ \cup {w},
                                      !.waiter[w].queued = TRUE]
    ELSE Signal(s, w, c)

\* The clients of a daemon that went down are disconnected, and the lists of
\* waiters are gone with the containers.
DropClients(s) ==
    [s EXCEPT !.waiters = [c \in Containers |-> {}],
              !.waiter = [w \in WaiterIds |->
                  IF s.waiter[w].made
                  THEN [s.waiter[w] EXCEPT !.held = FALSE, !.client = "gone"]
                  ELSE s.waiter[w]]]

\* -------------------------------------------------------------- SetState
\* The counter of the container alone changes by diff.
UpdateRunningChildrenSelf(s, c, diff) ==
    [s EXCEPT !.rc[c] = (@ + diff) % (2 ^ UintBits)]

\* TContainer::UpdateRunningChildren: the counter of the container and of
\* every ancestor changes by diff (a size_t: -1 is added modulo the width).
UpdateRunningChildren(s, c, diff) ==
    [s EXCEPT !.rc = [d \in Containers |->
        IF d = c \/ d \in AncestorsOf(c)
        THEN (s.rc[d] + diff) % (2 ^ UintBits) ELSE s.rc[d]]]

\* TContainer::SetState after the counters were updated: the state is stored
\* in the object and in the data field, then the waiters are notified.
StoreAndNotify(s1, c, newState) ==
    NotifyWaiters([s1 EXCEPT !.state[c] = newState, !.dataState[c] = newState], c)

\* SetState that notifies the waiters before the state data is written.
SetStateOneNotifiesFirst(s, c, newState) ==
    IF s.state[c] = newState THEN s
    ELSE [NotifyWaiters(
             [(IF newState = "running" THEN UpdateRunningChildren(s, c, 1)
               ELSE IF s.state[c] = "running" THEN UpdateRunningChildren(s, c, -1)
               ELSE s) EXCEPT !.state[c] = newState], c)
          EXCEPT !.dataState[c] = newState]

\* TContainer::SetState on the container itself.
SetStateOne(s, c, newState) ==
    IF s.state[c] = newState THEN s
    ELSE StoreAndNotify(
             IF newState = "running" THEN UpdateRunningChildren(s, c, 1)
             ELSE IF s.state[c] = "running" THEN UpdateRunningChildren(s, c, -1)
             ELSE s, c, newState)

RECURSIVE SetState(_, _, _, _)
RECURSIVE SetStateChildren(_, _, _)
SetStateChildren(s, kids, newState) ==
    IF kids = <<>> THEN s
    ELSE SetStateChildren(SetState(s, Head(kids), newState, TRUE), Tail(kids), newState)

\* TContainer::SetState
SetState(s, c, newState, tree) ==
    LET s1 == IF tree THEN SetStateChildren(s, Children(s, c), newState) ELSE s
    IN  SetStateOne(s1, c, newState)

\* ------------------------------------------------------------- resources
\* TContainer::ShutdownOom
ShutdownOom(s, c) == [s EXCEPT !.source[c] = FALSE]

\* TContainer::FreeResources.  Dropping the leaf cgroup objects removes the
\* cgroups, with whatever was left in them.
FreeResources(s, c) ==
    [s EXCEPT !.cgroups[c] = FALSE,
              !.tclass[c] = 0,
              !.task[c] = NoTask,
              !.source[c] = FALSE,
              !.loop[c] = -1,
              !.procs[c] = FALSE,
              !.frozen[c] = FALSE,
              !.softLimit[c] = "none"]

\* TContainer::UpdateSoftLimit: the ancestors first, then the container if it
\* is Meta and has a memory cgroup.
UpdateSoftLimitOne(s, c) ==
    IF s.state[c] = "meta" /\ s.cgroups[c]
    THEN [s EXCEPT !.softLimit[c] = IF s.rc[c] > 0 THEN "default" ELSE "1MiB"]
    ELSE s
RECURSIVE UpdateSoftLimit(_, _)
UpdateSoftLimit(s, c) ==
    IF ~IsUser(c) THEN s
    ELSE UpdateSoftLimitOne(UpdateSoftLimit(s, ParentOf[c]), c)

\* TContainer::KillAll (SIGTERM, wait, then freeze + SIGKILL + unfreeze).
\* kill = "fail": reading the task list fails; "survive": the signals were
\* sent but processes are still there; "dead": the cgroup is empty afterwards.
KillAll(s, c, kill) ==
    LET s1 == [s EXCEPT !.frozen[c] = FALSE] IN
    IF kill = "fail" THEN Fail(s1, "Unknown")
    ELSE IF kill = "dead" THEN Ok([s1 EXCEPT !.procs[c] = FALSE])
    ELSE Ok(s1)

\* ------------------------------------------------------------------ Exit
RECURSIVE Exit(_, _, _, _, _, _)
RECURSIVE ExitChildren(_, _, _, _, _)

\* TContainer::ExitChildren
ExitChildren(s, kids, status, oomKilled, in) ==
    IF kids = <<>> \/ s.crashed THEN s
    ELSE LET child == Head(kids)
             s1 == IF s.state[child] \in {"running", "meta"}
                   THEN Exit(KillAll(s, child, in.kill), child, status, oomKilled, TRUE, in)
                   ELSE s
         IN  ExitChildren(s1, Tail(kids), status, oomKilled, in)

\* MayRespawn that still allows a respawn when respawn_count has reached
\* max_respawns.
MayRespawnOffByOne(s, c) ==
    /\ s.state[c] = "dead"
    /\ s.respawn[c]
    /\ (s.maxRespawns[c] < 0 \/ s.respawnCount[c] <= s.maxRespawns[c])

\* TContainer::MayRespawn
MayRespawn(s, c) ==
    /\ s.state[c] = "dead"
    /\ s.respawn[c]
    /\ (s.maxRespawns[c] < 0 \/ s.respawnCount[c] < s.maxRespawns[c])

\* TContainer::ScheduleRespawn
ScheduleRespawn(s, c) ==
    [s EXCEPT !.respawnQueued[c] = IF @ < MaxQueued THEN @ + 1 ELSE @]

\* TContainer::Exit.  The first statement reads Task->GetPid(): with no task
\* that is a null dereference, which either kills the daemon or reads garbage
\* and goes on (in.ub).
Exit(s, c, status, oomKilled, force, in) ==
    IF s.crashed THEN s
    ELSE IF ~s.task[c].present /\ in.ub = "crash" THEN Abort(s)
    ELSE IF ~force /\ ~oomKilled /\ s.procs[c] /\ s.isolate[c] THEN Ok(s)
    ELSE
        LET s1 == [ShutdownOom(s, c) EXCEPT !.exitStatus[c] = status,
                                            !.deathTime[c] = TRUE]
            s2 == IF oomKilled
                  THEN KillAll([s1 EXCEPT !.oomKilled[c] = TRUE], c, in.kill)
                  ELSE s1
            s3 == IF ~s2.isolate[c] THEN KillAll(s2, c, in.kill) ELSE s2
            s4 == ExitChildren(s3, Children(s3, c), status, oomKilled, in)
        IN  IF s4.crashed THEN s4
            ELSE
              LET s5 == IF s4.task[c].present
                        THEN [s4 EXCEPT !.task[c].running = FALSE] ELSE s4
                  s6 == SetState(s5, c, "dead", FALSE)
                  s7 == [s6 EXCEPT !.rootpid[c] = 0]
              IN  Ok(IF MayRespawn(s7, c) THEN ScheduleRespawn(s7, c) ELSE s7)

\* TContainer::SyncStateWithCgroup
SyncStateWithCgroup(s, c, in) ==
    IF s.lost[c] /\ s.state[c] = "running" /\ (~s.task[c].present \/ ~s.procs[c])
    THEN Exit(s, c, -1, FALSE, FALSE, in)
    ELSE s

\* ------------------------------------------------------------------ Stop
RECURSIVE Stop(_, _, _)
RECURSIVE StopChildren(_, _, _)

\* TContainer::StopChildren: a failing Stop of a child is only logged.
StopChildren(s, kids, in) ==
    IF kids = <<>> \/ s.crashed THEN s
    ELSE LET child == Head(kids)
             s1 == IF s.state[child] # "stopped" THEN Stop(s, child, in) ELSE s
         IN  StopChildren(s1, Tail(kids), in)

\* Stop that goes on with a container that is already Stopped.
StopRejectsPausedOnly(state) == state = "paused"

\* Stop that goes on with a Paused container.
StopRejectsStoppedOnly(state) == state = "stopped"

\* The states in which Stop is refused.
StopRejects(state) == state \in {"stopped", "paused"}

\* The end of Stop: a container without children updates the soft limits of
\* its ancestors; the resources are freed.
StopFinish(s, c) ==
    IF s.crashed THEN s
    ELSE IF Children(s, c) = <<>> THEN Ok(FreeResources(UpdateSoftLimit(s, c), c))
    ELSE Ok(FreeResources(s, c))

\* TContainer::Stop.  The wait after KillAll ends when the freezer cgroup is
\* empty or the root pid is gone; with in.kill = "survive" it times out.
Stop(s, c, in) ==
    LET s0 == SyncStateWithCgroup(s, c, in) IN
    IF s0.crashed THEN s0
    ELSE IF StopRejects(s0.state[c]) THEN Fail(s0, "InvalidState")
    ELSE
        LET s1 == ShutdownOom(s0, c)
            running == TaskRunning(s1, c)
        IN  IF running /\ in.kill = "fail" THEN KillAll(s1, c, "fail")
            ELSE IF running /\ in.kill = "survive"
                 THEN Fail(KillAll(s1, c, "survive"), "Unknown")
            ELSE
              LET s2 == IF running
                        THEN [KillAll(s1, c, "dead") EXCEPT !.task[c].running = FALSE]
                        ELSE s1
                  s3 == SetState(s2, c, "stopped", FALSE)
                  s4 == StopChildren(s3, Children(s3, c), in)
              IN  StopFinish(s4, c)

\* ----------------------------------------------------------------- Start
\* TContainer::PrepareNetwork
PrepareNetwork(s, c, in) ==
    IF ~s.net THEN Ok(s)
    ELSE IF s.tclass[c] # 0 THEN Abort(s)
    ELSE IF UseParentNamespace(s, c)
         THEN Ok([s EXCEPT !.tclass[c] = TclassOf(s, ParentOf[c])])
    ELSE IF TclassOf(s, ParentOf[c]) = 0 THEN Abort(s)
    ELSE LET s1 == [s EXCEPT !.tclass[c] = c]
         IN  IF in.fail = "network" THEN Fail(s1, "Unknown") ELSE Ok(s1)

\* TContainer::PrepareCgroups (with ApplyDynamicProperties, PrepareOomMonitor
\* and the device whitelist).  Tclass->GetHandle() on a null handle is a null
\* dereference.
PrepareCgroups(s, c, in) ==
    IF in.fail = "cgroups" THEN Fail(s, "Unknown")
    ELSE LET s1 == [s EXCEPT !.cgroups[c] = TRUE, !.softLimit[c] = "default"] IN
         IF s.net /\ s.tclass[c] = 0 /\ in.ub = "crash" THEN Abort(s1)
         ELSE LET s2 == [s1 EXCEPT !.source[c] = TRUE]
              IN  IF in.fail = "devices" THEN Fail(s2, "Unknown") ELSE Ok(s2)

\* TContainer::PrepareResources
PrepareResources(s, c, in) ==
    LET s1 == PrepareNetwork(s, c, in) IN
    IF s1.crashed THEN s1
    ELSE IF s1.err # "Success" THEN Fail(FreeResources(s1, c), s1.err)
    ELSE LET s2 == PrepareCgroups(s1, c, in) IN
         IF s2.crashed THEN s2
         ELSE IF s2.err # "Success" THEN Fail(FreeResources(s2, c), s2.err)
         ELSE Ok(s2)

\* TContainer::PrepareTask: a new task handle that is not started yet.
PrepareTask(s, c, in) ==
    IF in.fail = "preparetask" THEN Fail(s, "InvalidValue")
    ELSE Ok([s EXCEPT !.task[c] = [present |-> TRUE, pid |-> 0, running |-> FALSE]])

\* A Start that persists no pid.
PersistedRootPidNone(task) == 0

\* The value Start writes to raw_root_pid: the pid of the task just started.
PersistedRootPid(task) == task.pid

\* The part of Start that launches the task (entered unless the container is
\* started as a non-isolated meta container).
StartTask(s, c, in) ==
    IF RootIsFile[c] /\ in.fail = "loopdev" THEN Fail(s, "Unknown")
    ELSE IF in.fail = "set_loopdev" THEN Fail(FreeResources(s, c), "Unknown")
    ELSE
        LET s1 == [s EXCEPT !.loop[c] = IF RootIsFile[c] THEN 0 ELSE -1]
            s2 == PrepareTask(s1, c, in)
        IN  IF s2.err # "Success" THEN Fail(FreeResources(s2, c), s2.err)
            ELSE IF in.fail = "taskstart" THEN Fail(FreeResources(s2, c), "Unknown")
            ELSE
              LET s3 == [s2 EXCEPT !.task[c] = [present |-> TRUE, pid |-> PidOf(c),
                                                running |-> TRUE],
                                   !.procs[c] = TRUE]
              IN  IF in.fail = "set_start_errno" THEN Fail(s3, "Unknown")
                  ELSE IF in.fail = "set_root_pid" THEN Fail(s3, "Unknown")
                  ELSE Ok([s3 EXCEPT !.rootpid[c] = PersistedRootPid(s3.task[c])])

\* TContainer::Start
Start(s, c, meta, in) ==
    LET s0 == SyncStateWithCgroup(s, c, in) IN
    IF s0.crashed THEN s0
    ELSE IF s0.state[c] # "stopped" THEN Fail(s0, "InvalidState")
    ELSE IF ~meta /\ s0.cmdEmpty[c] THEN Fail(s0, "InvalidValue")
    ELSE IF in.fail = "validate" THEN Fail(s0, "InvalidValue")
    ELSE IF in.fail = "persist_count" THEN Fail(s0, "Unknown")
    ELSE IF in.fail = "persist"
         THEN Fail([s0 EXCEPT !.respawnCount[c] = 0, !.exitStatus[c] = -1,
                              !.oomKilled[c] = FALSE], "Unknown")
    ELSE
        LET s1 == PrepareResources([s0 EXCEPT !.respawnCount[c] = 0,
                                              !.exitStatus[c] = -1,
                                              !.oomKilled[c] = FALSE], c, in) IN
        IF s1.crashed \/ s1.err # "Success" THEN s1
        ELSE
          LET s2 == IF ~meta \/ s1.isolate[c] THEN StartTask(s1, c, in) ELSE s1 IN
          IF s2.err # "Success" THEN s2
          ELSE Ok(UpdateSoftLimit(
                      SetState(s2, c, IF meta THEN "meta" ELSE "running", FALSE), c))

\* --------------------------------------------------------------- Respawn
\* Respawn that leaves in respawn_count what Start wrote there.
CountLeftByStart(tmp, started) == started

\* The count Respawn writes after Start: one more than the count it read
\* before Start, whatever Start left.
CountAfterRespawn(tmp, started) == tmp + 1

\* TContainer::Respawn after its Start, which left the state s2: tmp is the
\* count read before Start.  The result of the last Data->Set is not looked
\* at.
RespawnStarted(tmp, s2, c) ==
    IF s2.crashed THEN s2
    ELSE [s2 EXCEPT !.respawnCount[c] = CountAfterRespawn(tmp, s2.respawnCount[c])]

\* TContainer::Respawn after its Stop, which left the state s1.
RespawnStopped(s1, c, in) ==
    IF s1.crashed \/ s1.err # "Success" THEN s1
    ELSE RespawnStarted(s1.respawnCount[c], Start(s1, c, FALSE, in), c)

\* TContainer::Respawn
Respawn(s, c, in) == RespawnStopped(Stop(s, c, in), c, in)

\* TContainer::DeliverEvent, case Respawn, on the state s0 in which the
\* event has left the queue.
RespawnIfMay(s0, c, in) ==
    IF MayRespawn(s0, c) THEN Respawn(s0, c, in) ELSE Ok(s0)

DeliverRespawn(s, c, in) ==
    RespawnIfMay([s EXCEPT !.respawnQueued[c] = @ - 1], c, in)

\* --------------------------------------------------- Pause, Resume, Kill
\* Pause that also accepts a Meta container.
PauseAllowedFromMeta(state) == state \in {"running", "meta"}

\* The states in which Pause is accepted.
PauseAllowed(state) == state = "running"

\* TContainer::Pause
Pause(s, c, in) ==
    LET s0 == SyncStateWithCgroup(s, c, in) IN
    IF s0.crashed THEN s0
    ELSE IF ~PauseAllowed(s0.state[c]) THEN Fail(s0, "InvalidState")
    ELSE IF in.fail = "freezer" THEN Fail(s0, "Unknown")
    ELSE Ok(SetState([s0 EXCEPT !.frozen[c] = TRUE], c, "paused", TRUE))

\* Resume that does not look at the ancestors.
PausedAncestorIgnored(s, c) == FALSE

\* The loop of Resume over the ancestors: one of them is Paused.
PausedAncestor(s, c) == \E p \in AncestorsOf(c) : s.state[p] = "paused"

\* TContainer::Resume
Resume(s, c, in) ==
    LET s0 == SyncStateWithCgroup(s, c, in) IN
    IF s0.crashed THEN s0
    ELSE IF s0.state[c] # "paused" THEN Fail(s0, "InvalidState")
    ELSE IF PausedAncestor(s0, c) THEN Fail(s0, "InvalidState")
    ELSE IF in.fail = "freezer" THEN Fail(s0, "Unknown")
    ELSE Ok(SetState([s0 EXCEPT !.frozen[c] = FALSE], c, "running", TRUE))

\* Kill that signals a container in any state.
KillAllowedAlways(state) == TRUE

\* The states in which Kill is accepted.
KillAllowed(state) == state = "running"

\* TContainer::Kill.  Task->Kill() with no task is a null dereference.
Kill(s, c, in) ==
    IF ~KillAllowed(s.state[c]) THEN Fail(s, "InvalidState")
    ELSE IF ~s.task[c].present /\ in.ub = "crash" THEN Abort(s)
    ELSE IF in.fail = "kill" THEN Fail(s, "Unknown")
    ELSE Ok(s)

\* --------------------------------------------------------------- Destroy
\* What container c holds: a traffic class, leaf cgroups, a task, an OOM
\* event source.
Held(s, c) ==
    (IF s.tclass[c] # 0 THEN {"tclass"} ELSE {})
    \cup (IF s.cgroups[c] THEN {"cgroups"} ELSE {})
    \cup (IF s.task[c].present THEN {"task"} ELSE {})
    \cup (IF s.source[c] THEN {"source"} ELSE {})

RECURSIVE RemoveKvs(_, _)
RECURSIVE RemoveKvsChildren(_, _)

\* The loop of RemoveKvs over the children.
RemoveKvsChildren(s, kids) ==
    IF kids = <<>> THEN s
    ELSE RemoveKvsChildren(RemoveKvs(s, Head(kids)), Tail(kids))

\* TContainer::RemoveKvs: the nodes of the children, then the node of the
\* container.
RemoveKvs(s, c) ==
    IF ~IsUser(c) THEN s
    ELSE LET s1 == RemoveKvsChildren(s, Children(s, c))
         IN  [s1 EXCEPT !.kvRemoved[c] = [removed |-> TRUE, held |-> Held(s1, c)],
                        !.kv[c] = <<>>]

\* Release() of a container that Destroy found acquired.
ReleaseIf(s, c, acquired) == IF acquired THEN Release(s, c) ELSE s

\* The end of Destroy once the container is Stopped: the nodes are removed,
\* then the traffic class is released.
DestroyStopped(s, c, acquired) ==
    ReleaseIf([RemoveKvs(s, c) EXCEPT !.tclass[c] = 0, !.err = "Success"], c, acquired)

\* The error return of Destroy.
DestroyFails(s, c, acquired) == Fail(ReleaseIf(s, c, acquired), s.err)

\* Destroy after its Stop.
DestroyStop(s, c, acquired) ==
    IF s.crashed THEN s
    ELSE IF s.err # "Success" THEN DestroyFails(s, c, acquired)
    ELSE DestroyStopped(s, c, acquired)

\* Destroy after its Kill, whose result is dropped: a container that is not
\* Stopped is stopped.
DestroyKill(s, c, acquired, in) ==
    IF s.crashed THEN s
    ELSE DestroyStop(IF s.state[c] = "stopped" THEN Ok(s) ELSE Stop(Ok(s), c, in),
                     c, acquired)

\* Destroy after its Resume: a running task is killed.
DestroyResume(s, c, acquired, in) ==
    IF s.crashed THEN s
    ELSE IF s.err # "Success" THEN DestroyFails(s, c, acquired)
    ELSE DestroyKill(IF TaskRunning(s, c) THEN Kill(s, c, in) ELSE s, c, acquired, in)

\* Destroy after SyncStateWithCgroup: a Paused container is resumed.
DestroySynced(s, c, acquired, in) ==
    IF s.crashed THEN s
    ELSE DestroyResume(IF s.state[c] = "paused" THEN Resume(s, c, in) ELSE Ok(s),
                       c, acquired, in)

\* TContainer::Destroy
Destroy(s, c, in) ==
    DestroySynced(SyncStateWithCgroup(s, c, in), c, s.acquired[c], in)

\* ---------------------------------------------------------------- events
\* An exit event that is taken whatever its pid.
ForAnyPid(task, pid) == TRUE

\* The test of DeliverExitStatus on the pid of the event.
ForTaskPid(task, pid) == task.pid = pid

\* TContainer::DeliverExitStatus
DeliverExitStatus(s, c, pid, status, oomFlag, in) ==
    IF ~s.task[c].present THEN Ok(s)
    ELSE IF ~ForTaskPid(s.task[c], pid) THEN Ok(s)
    ELSE IF s.state[c] = "dead" THEN Ok(s)
    ELSE Exit(s, c, status, oomFlag, FALSE, in)

\* The fd of the container's OOM eventfd: the container's own, or -1.
Efd(s, c) == IF s.source[c] THEN c ELSE -1

\* TContainer::DeliverOom
DeliverOom(s, c, fd, in) ==
    IF Efd(s, c) # fd THEN Ok(s)
    ELSE IF ~s.task[c].present THEN Ok(s)
    ELSE LET s1 == ShutdownOom(s, c) IN
         IF s1.state[c] = "dead" THEN Ok(s1)
         ELSE Exit(s1, c, SIGKILL, TRUE, FALSE, in)

\* --------------------------------------------------------------- Restore
\* FreezerSubsystem::IsFreezed: the kernel reports a cgroup as frozen when it
\* or one of its ancestors was frozen.
IsFreezed(s, c) == s.frozen[c] \/ \E p \in AncestorsOf(c) : s.frozen[p]

\* Inputs of a Start that Restore runs on an ancestor.
NestedStart(in) ==
    [kill |-> in.kill, ub |-> in.ub, fail |-> "none"]

\* TContainer::Restore, the loop that starts the ancestors.
RECURSIVE RestoreStartParents(_, _, _)
RECURSIVE RestoreParentStarted(_, _, _)
RestoreParentStarted(s1, parent, in) ==
    IF s1.crashed \/ s1.err # "Success" THEN s1
    ELSE RestoreStartParents(s1, ParentOf[parent], in)
RestoreStartParents(s, parent, in) ==
    IF ~IsUser(parent) THEN Ok(s)
    ELSE IF s.state[parent] \in {"running", "meta", "dead"} THEN Ok(s)
    ELSE RestoreParentStarted(Start(s, parent, s.cmdEmpty[parent], NestedStart(in)),
                              parent, in)

\* TContainer::Restore of a container whose node holds raw_root_pid, step by
\* step, last step first.  reattach = "ok": the task has the right parent and
\* freezer; "zombie": it has the right parent and is a zombie; "lost":
\* anything else.
RestoreResult(s) == IF s.crashed THEN s ELSE Ok(s)

\* The final SyncStateWithCgroup, skipped for a zombie.
RestoreSync(s, c, reattach, in) ==
    IF reattach # "zombie" THEN SyncStateWithCgroup(s, c, in) ELSE s

\* A frozen cgroup makes the restored container Paused.
RestoreFrozen(s, c) ==
    IF IsFreezed(s, c) THEN SetState(s, c, "paused", FALSE) ELSE s

\* The state: Dead if the node says so, else Meta or Running by the command.
RestoreSetState(s, c, dstate) ==
    IF dstate = "dead" THEN SetState(s, c, "dead", FALSE)
    ELSE RestoreFrozen(SetState(s, c, IF s.cmdEmpty[c] THEN "meta" ELSE "running",
                                FALSE), c)

\* Task->Restore(pid) on the task handle PrepareTask made.
RestoreTask(s, c, dstate, reattach, in) ==
    IF s.err # "Success" THEN Fail(FreeResources(s, c), s.err)
    ELSE RestoreResult(RestoreSync(RestoreSetState(
             [s EXCEPT !.task[c] = [present |-> TRUE,
                                    pid |-> IF s.rootpid[c] < 0 THEN 0 ELSE s.rootpid[c],
                                    running |-> TRUE],
                       !.lost[c] = (reattach = "lost")],
             c, dstate), c, reattach, in))

RestoreResources(s, c, dstate, reattach, in) ==
    IF s.crashed THEN s
    ELSE IF s.err # "Success" THEN Fail(FreeResources(s, c), s.err)
    ELSE RestoreTask(PrepareTask(s, c, in), c, dstate, reattach, in)

RestoreAfterParents(s, c, dstate, reattach, in) ==
    IF s.crashed \/ s.err # "Success" THEN s
    ELSE RestoreResources(PrepareResources(s, c, in), c, dstate, reattach, in)

RestoreStarted(s, c, dstate, reattach, in) ==
    RestoreAfterParents(RestoreStartParents(s, ParentOf[c], in), c, dstate, reattach, in)

\* TContainer::Restore of a container that was created and never started.
RestoreCreated(s, c) ==
    Ok([SetState(s, c, "stopped", FALSE) EXCEPT !.task[c] = NoTask])

\* TContainer::Restore
Restore(s, c, dstate, reattach, in) ==
    IF s.rootpid[c] # -1
    THEN RestoreStarted(s, c, dstate, reattach, in)
    ELSE RestoreCreated(s, c)

\* A container object that does not exist: nothing is held in its name.
Forget(s, c) ==
    [s EXCEPT !.exists[c] = FALSE, !.state[c] = "stopped", !.cgroups[c] = FALSE,
              !.tclass[c] = 0, !.task[c] = NoTask, !.source[c] = FALSE,
              !.loop[c] = -1, !.rootpid[c] = -1, !.lost[c] = FALSE,
              !.isolate[c] = TRUE, !.cmdEmpty[c] = TRUE, !.procs[c] = FALSE,
              !.frozen[c] = FALSE, !.exitStatus[c] = -1, !.oomKilled[c] = FALSE,
              !.deathTime[c] = FALSE, !.respawnCount[c] = 0,
              !.respawnQueued[c] = 0, !.respawn[c] = FALSE,
              !.maxRespawns[c] = -1, !.memGuarantee[c] = 0, !.memLimit[c] = 0,
              !.waiters[c] = {}, !.dataState[c] = "stopped", !.acquired[c] = FALSE,
              !.softLimit[c] = "none"]

\* The holder drops the objects of a destroyed container and of its children.
RECURSIVE ForgetAll(_, _)
ForgetAll(s, cs) ==
    IF cs = <<>> THEN s ELSE ForgetAll(Forget(s, Head(cs)), Tail(cs))

\* The daemon's memory after a restart: the objects are gone, the node of
\* every container (properties, data) and the kernel's cgroups are not.
FreshMemory(s) ==
    [s EXCEPT !.exists = [c \in Containers |-> FALSE],
              !.state = [c \in Containers |-> "unknown"],
              !.cgroups = [c \in Containers |-> FALSE],
              !.tclass = [c \in Containers |-> 0],
              !.task = [c \in Containers |-> NoTask],
              !.source = [c \in Containers |-> FALSE],
              !.lost = [c \in Containers |-> FALSE],
              !.rc = [c \in Containers |-> 0],
              !.respawnQueued = [c \in Containers |-> 0],
              !.waiters = DropClients(s).waiters,
              !.waiter = DropClients(s).waiter,
              !.crashed = FALSE]

\* The container stays in the map if its Restore succeeded.
Restored(r, c) ==
    IF r.crashed THEN r
    ELSE IF r.err # "Success" THEN Forget(r, c)
    ELSE [r EXCEPT !.exists[c] = TRUE]

\* Restoring every node in depth order: a container whose Restore fails, or
\* whose parent was not restored, is dropped with its node.
RECURSIVE RestoreAll(_, _, _, _, _, _)
RestoreAll(s, todo, old, reattach, failAt, in) ==
    IF todo = <<>> \/ s.crashed THEN s
    ELSE
      LET c == Head(todo)
          parentOk == ~IsUser(ParentOf[c]) \/ s.exists[ParentOf[c]]
          s1 == IF ~old.exists[c] THEN Forget(s, c)
                ELSE IF ~parentOk THEN Forget(s, c)
                ELSE Restored(Restore(s, c, old.state[c], reattach[c],
                                      [in EXCEPT !.fail = IF c = failAt THEN "cgroups"
                                                          ELSE "none"]), c)
      IN  RestoreAll(s1, Tail(todo), old, reattach, failAt, in)

\* What the restarted daemon can find out about the task of a container.
ReattachOutcomes(s, c) ==
    IF ~s.exists[c] \/ s.rootpid[c] = -1 THEN {"lost"}
    ELSE IF s.rootpid[c] = 0 THEN {"lost"}
    ELSE IF s.procs[c] THEN {"ok", "zombie", "lost"}
    ELSE {"zombie", "lost"}

\* ----------------------------------------------------------- SetProperty
\* Arithmetic of uint64_t.
Wrap(n) == n % (2 ^ UintBits)

HierarchicalProperties == {"memory_guarantee", "memory_limit"}

\* Prop->Get<uint64_t>(property); the root containers hold the default, 0.
PropOf(s, property, c) ==
    IF ~IsUser(c) THEN 0
    ELSE IF property = "memory_guarantee" THEN s.memGuarantee[c]
    ELSE s.memLimit[c]

\* TContainer::GetChildrenSum, the loop over the children kids: the child
\* except counts as exceptVal (0 = no such child), a child whose value is 0
\* counts as the sum of its own children.
RECURSIVE GetChildrenSumOver(_, _, _, _, _)
GetChildrenSumOver(s, property, kids, except, exceptVal) ==
    IF kids = <<>> THEN 0
    ELSE LET child == Head(kids)
             childval == PropOf(s, property, child)
             add == IF except = child THEN exceptVal
                    ELSE IF childval # 0 THEN childval
                    ELSE GetChildrenSumOver(s, property, Children(s, child),
                                            except, exceptVal)
         IN  Wrap(add + GetChildrenSumOver(s, property, Tail(kids), except, exceptVal))

GetChildrenSum(s, property, c, except, exceptVal) ==
    GetChildrenSumOver(s, property, Children(s, c), except, exceptVal)

\* TContainer::ValidHierarchicalProperty
ValidHierarchicalProperty(s, property, c, value) ==
    LET children == GetChildrenSum(s, property, c, 0, 0)
        parent == PropOf(s, property, ParentOf[c])
    IN  /\ ~(children # 0 /\ value < children)
        /\ \A a \in AncestorsOf(c) :
              ~(PropOf(s, property, a) # 0 /\ value > PropOf(s, property, a))
        /\ ~(parent # 0
                /\ GetChildrenSum(s, property, ParentOf[c], c, value) > parent)

\* TMemoryGuaranteeProperty::CheckValue and TMemoryLimitProperty::CheckValue.
\* The sum of the root goes through the porto root, whose value is 0.
CheckValue(s, property, c, value) ==
    IF property = "memory_guarantee" THEN
        IF ~s.knob THEN "NotSupported"
        ELSE IF ~ValidHierarchicalProperty(s, property, c, value) THEN "InvalidValue"
        ELSE IF Wrap(GetChildrenSum(s, property, PortoRootId, c, value)
                       + MemoryGuaranteeReserve) > TotalMemory
             THEN "ResourceNotAvailable"
        ELSE "Success"
    ELSE IF ~ValidHierarchicalProperty(s, property, c, value) THEN "InvalidValue"
    ELSE "Success"

\* TContainer::SetProperty of a hierarchical property (both are dynamic;
\* memory_guarantee is read-only in a container that shares the namespace of
\* its parent).  A value that passed CheckValue is stored before the cgroup
\* knobs are written.
SetProperty(s, c, property, value, in) ==
    LET s0 == SyncStateWithCgroup(s, c, in) IN
    IF s0.crashed THEN s0
    ELSE IF s0.state[c] = "dead" THEN Fail(s0, "InvalidState")
    ELSE IF UseParentNamespace(s0, c) /\ property = "memory_guarantee"
         THEN Fail(s0, "NotSupported")
    ELSE IF CheckValue(s0, property, c, value) # "Success"
         THEN Fail(s0, CheckValue(s0, property, c, value))
    ELSE LET s1 == IF property = "memory_guarantee"
                   THEN [s0 EXCEPT !.memGuarantee[c] = value]
                   ELSE [s0 EXCEPT !.memLimit[c] = value]
         IN  IF s1.state[c] = "stopped" THEN Ok(s1)
             ELSE IF in.fail = "apply" THEN Fail(s1, "Unknown")
             ELSE IF in.fail = "apply_busy" /\ property = "memory_limit"
                  THEN Fail(s1, "InvalidValue")
             ELSE Ok(s1)

\* A HasState for which every state is legal.
HasStateAlways(property, state) == TRUE

\* TPropertySet::HasState
HasState(property, state) == state \in PropertyStates[property]

\* CheckValue of the property: cpu_priority is 0-99, net_priority 0-7.
ValidValue(property, value) ==
    IF property = "cpu_priority" THEN value <= 99
    ELSE IF property = "net_priority" THEN value <= 7
    ELSE TRUE

\* TContainer::ShouldApplyProperty
ShouldApplyProperty(s, c, property) ==
    HasState(property, "running") /\ s.state[c] \notin {"dead", "stopped"}

\* TContainer::SetProperty after SyncStateWithCgroup.
SetPropertySynced(s, c, property, value, in) ==
    IF s.crashed THEN s
    ELSE IF ~HasState(property, s.state[c]) THEN Fail(s, "InvalidState")
    ELSE IF UseParentNamespace(s, c) /\ "PARENT_RO" \in PropertyFlags[property]
         THEN Fail(s, "NotSupported")
    ELSE IF ~ValidValue(property, value) THEN Fail(s, "InvalidValue")
    ELSE IF ShouldApplyProperty(s, c, property) /\ in.fail = "apply"
         THEN Fail(SetValue(s, c, property, value), "Unknown")
    ELSE Ok(SetValue(s, c, property, value))

\* TContainer::SetProperty of a property that is not hierarchical, by a
\* client that is privileged (superuser) or not.
SetPropertyOf(s, c, property, value, superuser, in) ==
    IF "SUPERUSER" \in PropertyFlags[property] /\ ~superuser
          /\ s.propValue[c][property] # value
    THEN Fail(s, "Permission")
    ELSE SetPropertySynced(SyncStateWithCgroup(s, c, in), c, property, value, in)

\* ------------------------------------------------------------ the system
\* The property settings the containers were given before the first request
\* (isolate defaults to true, command to ""): a meta parent (empty command)
\* with an isolated child, and a non-isolated parent with a non-isolated
\* child.
Configs ==
    { [isolate |-> [c \in Containers |-> TRUE],
       cmdEmpty |-> [c \in Containers |-> c = 2],
       net |-> n] : n \in BOOLEAN }
    \cup
    { [isolate |-> [c \in Containers |-> FALSE],
       cmdEmpty |-> [c \in Containers |-> FALSE],
       net |-> FALSE] }

\* After Create of the containers in created (and SetProperty of isolate and
\* command): Stopped, nothing held.
InitKernel(created, knobs) ==
    /\ Exists = [c \in Containers |-> c \in created]
    /\ State = [c \in Containers |-> "stopped"]
    /\ LeafCgroups = [c \in Containers |-> FALSE]
    /\ Tclass = [c \in Containers |-> 0]
    /\ Task = [c \in Containers |-> NoTask]
    /\ Source = [c \in Containers |-> FALSE]
    /\ RawLoopDev = [c \in Containers |-> -1]
    /\ RawRootPid = [c \in Containers |-> -1]
    /\ LostAndRestored = [c \in Containers |-> FALSE]
    /\ RunningChildren = [c \in Containers |-> 0]
    /\ \E k \in Configs :
          /\ Isolate = [c \in Containers |-> IF c \in created THEN k.isolate[c] ELSE TRUE]
          /\ CommandEmpty = [c \in Containers |-> IF c \in created THEN k.cmdEmpty[c] ELSE TRUE]
          /\ NetEnabled = k.net
    /\ CgProcs = [c \in Containers |-> FALSE]
    /\ Frozen = [c \in Containers |-> FALSE]
    /\ Crashed = FALSE
    /\ ExitStatus = [c \in Containers |-> -1]
    /\ OomKilled = [c \in Containers |-> FALSE]
    /\ DeathTime = [c \in Containers |-> FALSE]
    /\ RespawnCount = [c \in Containers |-> 0]
    /\ RespawnQueued = [c \in Containers |-> 0]
    /\ RespawnProp = [c \in Containers |-> FALSE]
    /\ MaxRespawns = [c \in Containers |-> -1]
    /\ MemGuarantee = [c \in Containers |-> 0]
    /\ MemLimit = [c \in Containers |-> 0]
    /\ LowLimitKnob \in knobs
    /\ Waiters = [c \in Containers |-> {}]
    /\ Waiter = [w \in WaiterIds |-> NoWaiter]
    /\ DataState = [c \in Containers |-> "stopped"]
    /\ SoftLimit = [c \in Containers |-> "none"]
    /\ Acquired = [c \in Containers |-> FALSE]
    /\ Locks = NoLocks
    /\ Kv = [c \in Containers |-> <<>>]
    /\ KvOut = NoKvOut
    /\ PropValue = [c \in Containers |-> [p \in Properties |-> 0]]
    /\ KvRemoved = [c \in Containers |-> [removed |-> FALSE, held |-> {}]]
    /\ Tc = NoTc
    /\ Age = NoAge
    /\ Netw = NoNetw
    /\ last = [op |-> "Create", c |-> 0, err |-> "Success"]
    /\ before = NoStates

InitWith(created) == InitKernel(created, {TRUE})

Init == InitWith(Created)

\* When the daemon aborts its memory is gone: what is left is the node of
\* every container (its properties and data, the state among them) and the
\* kernel's cgroups and processes.
AfterAbort(s) ==
    [s EXCEPT !.cgroups = [c \in Containers |-> FALSE],
              !.tclass = [c \in Containers |-> 0],
              !.task = [c \in Containers |-> NoTask],
              !.source = [c \in Containers |-> FALSE],
              !.lost = [c \in Containers |-> FALSE],
              !.rc = [c \in Containers |-> 0],
              !.respawnQueued = [c \in Containers |-> 0],
              !.waiters = DropClients(s).waiters,
              !.waiter = DropClients(s).waiter]

Done(op, c, s) ==
    /\ Becomes(IF s.crashed THEN AfterAbort(s) ELSE s)
    /\ last' = [op |-> op, c |-> c, err |-> s.err]
    /\ before' = IF op = "Pause" /\ s.err = "Success" THEN State ELSE NoStates

\* The outcomes of the environment that a handler can observe; those it
\* cannot observe in the current state are not enumerated.
SyncMayExit(c) ==
    LostAndRestored[c] /\ State[c] = "running" /\ (~Task[c].present \/ ~CgProcs[c])
KillOutcomes == {"fail", "survive", "dead"}
UbOutcomes == {"crash", "continue"}
SyncKill(c) == IF SyncMayExit(c) THEN KillOutcomes ELSE {"dead"}
SyncUb(c) == IF SyncMayExit(c) /\ ~Task[c].present THEN UbOutcomes ELSE {"crash"}
Live(c) == ~Crashed /\ Exists[c]

\* The exit status a process reports: a failure, which differs from the -1 of
\* a container that has not exited and from SIGKILL.
ExitStatuses == {1}

StartFails ==
    {"none", "validate", "persist_count", "persist", "network", "cgroups", "devices", "loopdev",
     "set_loopdev", "preparetask", "taskstart", "set_start_errno", "set_root_pid"}

\* A null handle is dereferenced only where one can be null.
ExitUb(c) == IF \E d \in Subtree(c) : Exists[d] /\ ~Task[d].present THEN UbOutcomes ELSE {"crash"}

\* The callers of Start bring up the ancestors first (the request handler
\* starts every stopped ancestor as a meta container, Restore does the same
\* in its loop over the parents): Start runs on a container whose parent is
\* Running, Meta or Dead, and with meta = true only on a container that has a
\* child to host.
ParentsStarted(c) ==
    IF IsUser(ParentOf[c]) THEN State[ParentOf[c]] \in {"running", "meta", "dead"}
    ELSE TRUE
MayStartAs(c) ==
    IF State[c] # "stopped" THEN {FALSE}
    ELSE IF Children(Cur, c) # <<>> THEN BOOLEAN ELSE {FALSE}

StartOp(c) ==
    /\ Live(c)
    /\ ParentsStarted(c)
    /\ \E meta \in MayStartAs(c),
          fail \in (IF State[c] = "stopped" THEN StartFails ELSE {"none"}),
          kill \in SyncKill(c),
          ub \in (IF State[c] = "stopped" /\ NetEnabled THEN UbOutcomes ELSE SyncUb(c)) :
          Done("Start", c,
               Start(Cur, c, meta, [kill |-> kill, ub |-> ub, fail |-> fail]))

StopOp(c) ==
    /\ Live(c)
    /\ \E kill \in KillOutcomes, ub \in ExitUb(c) :
          Done("Stop", c, Stop(Cur, c, [kill |-> kill, ub |-> ub, fail |-> "none"]))

PauseOp(c) ==
    /\ Live(c)
    /\ \E fail \in {"none", "freezer"}, kill \in SyncKill(c), ub \in SyncUb(c) :
          Done("Pause", c, Pause(Cur, c, [kill |-> kill, ub |-> ub, fail |-> fail]))

ResumeOp(c) ==
    /\ Live(c)
    /\ \E fail \in {"none", "freezer"}, kill \in SyncKill(c), ub \in SyncUb(c) :
          Done("Resume", c, Resume(Cur, c, [kill |-> kill, ub |-> ub, fail |-> fail]))

KillOp(c) ==
    /\ Live(c)
    /\ \E fail \in {"none", "kill"},
          ub \in (IF Task[c].present THEN {"crash"} ELSE UbOutcomes) :
          Done("Kill", c, Kill(Cur, c, [kill |-> "dead", ub |-> ub, fail |-> fail]))

Destroyed(s, c) ==
    IF s.crashed \/ s.err # "Success" THEN s
    ELSE ForgetAll(s, SetToSeq(Subtree(c)))

\* A client destroys container c; after a successful Destroy the objects of
\* the container and of its descendants are gone.
DestroyCall(c, in) ==
    /\ Live(c)
    /\ Done("Destroy", c, Destroyed(Destroy(Cur, c, in), c))
DestroyOp(c) ==
    \E kill \in KillOutcomes, fail \in {"none", "freezer"}, ub \in ExitUb(c) :
        DestroyCall(c, [kill |-> kill, ub |-> ub, fail |-> fail])

\* The reaper reports that process pid has exited.  For the root process of
\* the container, others tells whether the freezer cgroup still holds other
\* processes at that moment; FdHasEvent(Efd) tells whether an OOM event is
\* pending on the container's eventfd.  A frozen process does not exit.
ExitDelivery(c, pid, oomFlag, others) ==
    LET taken == Task[c].present /\ Task[c].pid = pid /\ State[c] # "dead" IN
    /\ Live(c)
    /\ ~(taken /\ IsFreezed(Cur, c))
    /\ oomFlag \in (IF taken /\ Source[c] THEN BOOLEAN ELSE {FALSE})
    /\ others \in (IF taken /\ CgProcs[c] THEN BOOLEAN ELSE {CgProcs[c]})
    /\ \E status \in (IF taken THEN ExitStatuses ELSE {0}),
          kill \in (IF taken THEN KillOutcomes ELSE {"dead"}),
          ub \in (IF taken THEN ExitUb(c) ELSE {"crash"}) :
          Done("Exit", c,
               DeliverExitStatus([Cur EXCEPT !.procs[c] = others], c, pid, status,
                                 oomFlag,
                                 [kill |-> kill, ub |-> ub, fail |-> "none"]))

ExitEvent(c) ==
    \E pid \in Pids, oomFlag \in BOOLEAN, others \in BOOLEAN :
        ExitDelivery(c, pid, oomFlag, others)

\* The epoll loop reports an event on the OOM eventfd fd.  Frozen processes
\* allocate nothing.
OomDelivery(c, fd) ==
    LET taken == Efd(Cur, c) = fd /\ Task[c].present /\ State[c] # "dead" IN
    /\ Live(c)
    /\ ~(taken /\ IsFreezed(Cur, c))
    /\ \E kill \in (IF taken THEN KillOutcomes ELSE {"dead"}),
          ub \in (IF taken THEN ExitUb(c) ELSE {"crash"}) :
          Done("Oom", c,
               DeliverOom(Cur, c, fd, [kill |-> kill, ub |-> ub, fail |-> "none"]))

OomEvent(c) == \E fd \in Containers : OomDelivery(c, fd)

\* The values a client asks for: none, a small one, and one that is half the
\* range of the integers.
PropertyValues == {0, 1, 2 ^ (UintBits - 1)}

\* A client sets property to value on container c.
SetPropertyCall(c, property, value) ==
    /\ Live(c)
    /\ \E fail \in (IF State[c] \in {"stopped", "dead"} THEN {"none"}
                    ELSE {"none", "apply", "apply_busy"}),
          kill \in SyncKill(c), ub \in SyncUb(c) :
          Done("SetProperty", c,
               SetProperty(Cur, c, property, value,
                           [kill |-> kill, ub |-> ub, fail |-> fail]))

SetPropertyOp(c) ==
    \E property \in HierarchicalProperties, value \in PropertyValues :
        SetPropertyCall(c, property, value)

\* The timer queue delivers the Respawn event of container c; kill is the
\* outcome of killing the processes in the internal Stop.
RespawnDelivery(c, kill) ==
    /\ Live(c)
    /\ RespawnQueued[c] > 0
    /\ RespawnCount[c] < MaxCount
    /\ \E fail \in StartFails, ub \in ExitUb(c) :
          Done("Respawn", c,
               DeliverRespawn(Cur, c, [kill |-> kill, ub |-> ub, fail |-> fail]))

RespawnEvent(c) == \E kill \in KillOutcomes : RespawnDelivery(c, kill)

\* A client operation acquires container c, and releases what it acquired.
AcquireOp(c) == Live(c) /\ Done("Acquire", c, Acquire(Cur, c))
ReleaseOp(c) == Live(c) /\ Acquired[c] /\ Done("Release", c, Release(Cur, c))

\* A record is appended to the node of container c.
AppendNodeOp(c, record) ==
    /\ Live(c)
    /\ Len(Kv[c]) < MaxRecords
    /\ Done("AppendNode", c, [Cur EXCEPT !.kv[c] = AppendNode(@, record)])

\* The node of container c is loaded.
LoadNodeOp(c) ==
    /\ Live(c)
    /\ Done("LoadNode", c,
            [Cur EXCEPT !.kvOut = [op |-> "LoadNode", node |-> LoadNode(Kv[c]).node,
                                   map |-> NoKvOut.map, props |-> NoKvOut.props,
                                   err |-> LoadNode(Kv[c]).err]])

\* Record i of the node of container c is damaged on the disk.
CorruptOp(c, i) ==
    /\ Live(c)
    /\ i \in DOMAIN Kv[c] /\ Kv[c][i] # Corrupt
    /\ Done("Corrupt", c, [Cur EXCEPT !.kv[c][i] = Corrupt])

\* The daemon starts and restores the storage; ListNodes gives the nodes of
\* the containers in the order names.
KvRestoreOp(names) ==
    /\ ~Crashed
    /\ {names[i] : i \in DOMAIN names} = {c \in Containers : Exists[c]}
    /\ Done("KvRestore", 0,
            [Cur EXCEPT !.kvOut = [op |-> "Restore", node |-> <<>>,
                                   props |-> NoKvOut.props,
                                   map |-> KvRestore(Kv, names, NoKvOut.map).map,
                                   err |-> KvRestore(Kv, names, NoKvOut.map).err]])

\* A client sets property of container c to v.
SetValueOp(c, property, v) ==
    /\ Live(c)
    /\ Len(Kv[c]) < MaxRecords
    /\ Done("SetValue", c, SetValue(Cur, c, property, v))

\* The daemon restarts: the node of container c is loaded and its properties
\* are restored from it.
RestoreNodeOp(c) ==
    /\ Live(c)
    /\ Done("RestoreNode", c,
            [Cur EXCEPT !.kvOut =
                [op |-> "RestoreNode", node |-> LoadNode(Kv[c]).node,
                 map |-> NoKvOut.map,
                 props |-> RestoreProps(NoKvOut.props, LoadNode(Kv[c]).node),
                 err |-> LoadNode(Kv[c]).err]])

\* ---------------------------------------------------------------- network
\* TNetwork::Prepare on the interfaces there are: ifaces and Links are read,
\* every link is prepared, every interface gets the default and porto-root
\* classes.
NetPrepare(present) ==
    [NoNetw EXCEPT !.present = present, !.qdisc = present, !.rootClasses = present,
                   !.links = present, !.ifaces = present, !.fresh = TRUE]

\* TNetwork::Update: the links are opened again, PrepareLink is run on the new
\* ones (it fails on failLink), Links is replaced.
NetUpdate(n, failLink) ==
    IF failLink \in n.present \ n.links
    THEN [n EXCEPT !.qdisc = @ \cup {l \in n.present \ n.links : l < failLink},
                   !.err = "Unknown"]
    ELSE [n EXCEPT !.qdisc = @ \cup (n.present \ n.links),
                   !.links = n.present, !.fresh = TRUE, !.err = "Success"]

\* TNetwork::UpdateTrafficClasses: a class is added on every interface of
\* ifaces; the add fails on an interface that is gone.
UpdateTrafficClasses(n) ==
    IF n.ifaces \subseteq n.present
    THEN [n EXCEPT !.covered = n.ifaces, !.err = "Success"]
    ELSE [n EXCEPT !.covered = {}, !.err = "Unknown"]

\* ------------------------------------------------------------------ aging
\* TContainer::CanRemoveDead: times in ms, aging_time in s, the sum in the
\* width of the times.
CanRemoveDead(state, death, aging, now) ==
    /\ state = "dead"
    /\ ((death \div 1000) + aging) % (2 ^ TimeBits) <= now \div 1000

\* --------------------------------------------------------- traffic classes
\* The orders in which a cache can list the classes cs.
RECURSIVE Orders(_)
Orders(cs) ==
    IF cs = {} THEN {<<>>}
    ELSE UNION {{<<h>> \o o : o \in Orders(cs \ {h})} : h \in cs}

\* The classes of the cache whose parent is handle, in the order of the cache.
RECURSIVE ChildrenIn(_, _, _)
ChildrenIn(cache, parent, handle) ==
    IF cache = <<>> THEN <<>>
    ELSE (IF parent[Head(cache)] = handle THEN <<Head(cache)>> ELSE <<>>)
         \o ChildrenIn(Tail(cache), parent, handle)

\* The first loop of DelTrafficClass: handles grows by the children of each
\* of its elements.
RECURSIVE CollectHandles(_, _, _, _)
CollectHandles(handles, i, cache, parent) ==
    IF i > Len(handles) THEN handles
    ELSE CollectHandles(handles \o ChildrenIn(cache, parent, handles[i]), i + 1,
                        cache, parent)

\* rtnl_class_delete: the kernel refuses a class that is not there, one that
\* has child classes (busy), and the class failAt.
ClassDelete(tc, handle, failAt) ==
    IF handle = failAt THEN "Unknown"
    ELSE IF handle \notin tc.classes THEN "NoEntry"
    ELSE IF \E h \in tc.classes : tc.parent[h] = handle THEN "Busy"
    ELSE "Success"

\* A second loop that runs from the front of handles: the parents first.
RECURSIVE DeleteFront(_, _, _)
DeleteFront(tc, handles, failAt) ==
    IF handles = <<>> THEN [tc EXCEPT !.err = "Success"]
    ELSE IF ClassDelete(tc, Head(handles), failAt) # "Success"
         THEN [tc EXCEPT !.err = "Unknown"]
    ELSE DeleteFront([tc EXCEPT !.classes = @ \ {Head(handles)},
                                !.deleted = Append(@, Head(handles))],
                     Tail(handles), failAt)

\* The second loop of DelTrafficClass: from the back of handles, until a
\* delete fails.
RECURSIVE DeleteBack(_, _, _, _)
DeleteBack(tc, handles, i, failAt) ==
    IF i < 1 THEN [tc EXCEPT !.err = "Success"]
    ELSE IF ClassDelete(tc, handles[i], failAt) # "Success"
         THEN [tc EXCEPT !.err = "Unknown"]
    ELSE DeleteBack([tc EXCEPT !.classes = @ \ {handles[i]},
                               !.deleted = Append(@, handles[i])],
                    handles, i - 1, failAt)

\* The deletes of the subtree with the parents first.
DeleteSubtreeParentsFirst(tc, handles, failAt) == DeleteFront(tc, handles, failAt)

\* The deletes of the subtree in the order of DelTrafficClass.
DeleteSubtree(tc, handles, failAt) == DeleteBack(tc, handles, Len(handles), failAt)

\* TNetwork::DelTrafficClass after the first delete, which gave ret.
DelTrafficClassAfter(tc, ret, handle, cache, failCache, failAt) ==
    IF ret = "Success"
    THEN [tc EXCEPT !.classes = @ \ {handle}, !.deleted = <<handle>>, !.err = "Success"]
    ELSE IF ret # "Busy" THEN [tc EXCEPT !.err = "Unknown"]
    ELSE IF failCache THEN [tc EXCEPT !.err = "Unknown"]
    ELSE DeleteSubtree([tc EXCEPT !.handles = CollectHandles(<<handle>>, 1, cache, tc.parent)],
                       CollectHandles(<<handle>>, 1, cache, tc.parent), failAt)

\* TNetwork::DelTrafficClass.  cache is the class cache of the interface,
\* failCache tells that it cannot be allocated.
DelTrafficClass(tc, handle, cache, failCache, failAt) ==
    DelTrafficClassAfter([tc EXCEPT !.handle = handle, !.was = tc.classes,
                                    !.handles = <<>>, !.failAt = failAt,
                                    !.deleted = <<>>],
                         ClassDelete(tc, handle, failAt), handle, cache, failCache, failAt)

\* An interface comes up, without qdisc and classes.
LinkAppears(l) ==
    /\ ~Crashed
    /\ l \notin Netw.present
    /\ Done("LinkAppears", 0,
            Ok([Cur EXCEPT !.netw.present = @ \cup {l}, !.netw.fresh = FALSE]))

\* An interface goes away with its qdisc and classes.
LinkDisappears(l) ==
    /\ ~Crashed
    /\ l \in Netw.present
    /\ Done("LinkDisappears", 0,
            Ok([Cur EXCEPT !.netw.present = @ \ {l}, !.netw.qdisc = @ \ {l},
                           !.netw.rootClasses = @ \ {l}, !.netw.fresh = FALSE]))

\* The daemon updates the network.
NetUpdateOp ==
    \E failLink \in Interfaces \cup {0} :
        /\ ~Crashed
        /\ Done("Update", 0, [Cur EXCEPT !.netw = NetUpdate(Netw, failLink),
                                         !.err = NetUpdate(Netw, failLink).err])

\* The classes of a container are created.
UpdateTrafficClassesOp ==
    /\ ~Crashed
    /\ Done("UpdateTrafficClasses", 0,
            [Cur EXCEPT !.netw = UpdateTrafficClasses(Netw),
                        !.err = UpdateTrafficClasses(Netw).err])

\* The clock advances by d ms.
TimePasses(d) ==
    /\ ~Crashed
    /\ Age.now + d < 2 ^ TimeBits
    /\ Done("TimePasses", 0, Ok([Cur EXCEPT !.age.now = @ + d, !.age.asked = FALSE]))

\* The daemon asks whether the container can be removed.
CanRemoveDeadOp ==
    /\ ~Crashed
    /\ Done("CanRemoveDead", 0,
            Ok([Cur EXCEPT !.age.asked = TRUE,
                           !.age.can = CanRemoveDead(Age.state, Age.death, Age.aging, Age.now)]))

\* A traffic class of the interface is deleted.
DelTrafficClassCall(handle, cache, failCache, failAt) ==
    /\ ~Crashed
    /\ Done("DelTrafficClass", handle,
            [Cur EXCEPT !.tc = DelTrafficClass(Tc, handle, cache, failCache, failAt),
                        !.err = DelTrafficClass(Tc, handle, cache, failCache, failAt).err])
DelTrafficClassOp(handle) ==
    \E cache \in Orders(Tc.classes), failCache \in BOOLEAN, failAt \in TcHandles \cup {0} :
        DelTrafficClassCall(handle, cache, failCache, failAt)

\* A traffic class is added under a class that is there.
AddTrafficClassOp(handle) ==
    /\ ~Crashed
    /\ handle \notin Tc.classes
    /\ Tc.parent[handle] \in Tc.classes
    /\ Done("AddTrafficClass", handle, Ok([Cur EXCEPT !.tc.classes = @ \cup {handle}]))

\* ------------------------------------------------------------------ locks
\* The frame a thread is in, and its stack with that frame replaced.
Top(t) == Locks.stack[t][Len(Locks.stack[t])]
WithTop(t, f) == [Locks.stack[t] EXCEPT ![Len(Locks.stack[t])] = f]
LockStep(l) == Done("Lock", 0, [Cur EXCEPT !.locks = l])

\* A worker thread takes the holder lock and calls Stop of container c.
EnterStop(t, c) ==
    /\ Live(c)
    /\ Locks.stack[t] = <<>>
    /\ Locks.holder = 0
    /\ LockStep([Locks EXCEPT !.holder = t,
                              !.stack[t] = <<[c |-> c, kids |-> <<>>, at |-> "stop"]>>])

\* TContainer::ApplyForChildren, called by Stop through StopChildren: the
\* children are copied and TScopedUnlock releases the holder lock.
ApplyBegin(t) ==
    /\ Locks.stack[t] # <<>> /\ Top(t).at = "stop"
    /\ LockStep([Locks EXCEPT
           !.holder = IF @ = t THEN 0 ELSE @,
           !.stack[t] = WithTop(t, [Top(t) EXCEPT !.kids = Children(Cur, Top(t).c),
                                                  !.at = "loop"])])

\* ApplyForChildren, AllowHolderUnlock: child->ScopedLock().
LockChild(t) ==
    /\ Locks.stack[t] # <<>> /\ Top(t).at = "loop" /\ Top(t).kids # <<>>
    /\ Locks.allow
    /\ Locks.container[Head(Top(t).kids)] = 0
    /\ LockStep([Locks EXCEPT !.container[Head(Top(t).kids)] = t,
                              !.stack[t] = WithTop(t, [Top(t) EXCEPT !.at = "child"])])

\* ApplyForChildren: holder_lock.lock() with the child's lock held, then fn,
\* the Stop of the child; without AllowHolderUnlock fn is called at once.
CallChild(t) ==
    /\ Locks.stack[t] # <<>> /\ Top(t).kids # <<>>
    /\ \/ Top(t).at = "child" /\ Locks.holder = 0
       \/ Top(t).at = "loop" /\ ~Locks.allow
    /\ LockStep([Locks EXCEPT
           !.holder = IF Top(t).at = "child" THEN t ELSE @,
           !.stack[t] = Append(WithTop(t, [Top(t) EXCEPT !.at = "fn"]),
                               [c |-> Head(Top(t).kids), kids |-> <<>>, at |-> "stop"])])

\* ApplyForChildren returns: the destructor of TScopedUnlock takes the holder
\* lock again.
LoopEnd(t) ==
    /\ Locks.stack[t] # <<>> /\ Top(t).at = "loop" /\ Top(t).kids = <<>>
    /\ Locks.holder \in {0, t}
    /\ LockStep([Locks EXCEPT !.holder = t,
                              !.stack[t] = WithTop(t, [Top(t) EXCEPT !.at = "free"])])

\* TContainer::FreeResources: Net->ScopedLock() around Tclass = nullptr.
NetLockTake(t) ==
    /\ Locks.stack[t] # <<>> /\ Top(t).at = "free"
    /\ Locks.net = 0
    /\ LockStep([Locks EXCEPT !.net = t,
                              !.stack[t] = WithTop(t, [Top(t) EXCEPT !.at = "net"])])

\* The network lock is released and Stop returns: to ApplyForChildren, which
\* releases the holder lock and the child's lock and goes on with the next
\* child, or to the worker, which releases the holder lock.
Return(t) ==
    /\ Locks.stack[t] # <<>> /\ Top(t).at = "net"
    /\ LET rest == SubSeq(Locks.stack[t], 1, Len(Locks.stack[t]) - 1)
           up == rest[Len(rest)]
       IN  LockStep(
             IF rest = <<>>
             THEN [Locks EXCEPT !.net = 0, !.holder = 0, !.stack[t] = <<>>]
             ELSE [Locks EXCEPT
                     !.net = 0,
                     !.holder = IF Locks.allow THEN 0 ELSE @,
                     !.container[Top(t).c] = IF @ = t THEN 0 ELSE @,
                     !.stack[t] = [rest EXCEPT ![Len(rest)] =
                                      [up EXCEPT !.kids = Tail(@), !.at = "loop"]]])

\* Client w, which has not waited before, asks to wait for container c: the
\* request makes the waiter, stores it in the client and adds it to c.
WaitOp(c, w) ==
    /\ Live(c)
    /\ ~Waiter[w].made
    /\ Done("Wait", c,
            Ok(AddWaiter([Cur EXCEPT !.waiter[w].made = TRUE,
                                     !.waiter[w].held = TRUE,
                                     !.waiter[w].on = c], c, w)))

\* Client w, which holds a waiter, disconnects (its waiter goes with it), or
\* its container can no longer be found.
ClientDrop(w, how) ==
    /\ ~Crashed
    /\ Waiter[w].held /\ Waiter[w].client = "connected"
    /\ Done("ClientDrop", 0,
            [Cur EXCEPT !.waiter[w].client = how,
                        !.waiter[w].held = (how # "gone")])

\* The last process of the container's freezer cgroup goes away by itself.
\* The inputs of a SetProperty call on container c.
SetPropertyInputs(c) ==
    [kill : SyncKill(c), ub : SyncUb(c),
     fail : IF State[c] \in {"stopped", "dead"} THEN {"none"} ELSE {"none", "apply"}]

\* A client sets a property that is not hierarchical.
SetPropertyOfCall(c, property, value, superuser, in) ==
    /\ Live(c)
    /\ Len(Kv[c]) < MaxWrites
    /\ Done("SetProperty", c, SetPropertyOf(Cur, c, property, value, superuser, in))
SetPropertyOfOp(c) ==
    \E property \in Properties, value \in PropertyInputs, superuser \in BOOLEAN,
       in \in SetPropertyInputs(c) :
        SetPropertyOfCall(c, property, value, superuser, in)

ProcessesGone(c) ==
    /\ CgProcs[c]
    /\ ~IsFreezed(Cur, c)
    /\ Done("ProcessesGone", c, [Cur EXCEPT !.procs[c] = FALSE])

\* The daemon stops (or has aborted) and comes up again: every node is
\* restored into a fresh object.
DaemonRestart ==
    \E reattach \in [Containers -> {"ok", "zombie", "lost"}],
       failAt \in {c \in Containers : Exists[c] /\ RawRootPid[c] # -1} \cup {0},
       kill \in {"survive", "dead"} :
       /\ \A c \in Containers : reattach[c] \in ReattachOutcomes(Cur, c)
       /\ Done("Restore", 0,
               RestoreAll(FreshMemory(Cur), SetToSeq(Containers), Cur, reattach, failAt,
                          [kill |-> kill, ub |-> "crash", fail |-> "none"]))

Next ==
    \/ \E c \in Containers : StartOp(c)
    \/ \E c \in Containers : StopOp(c)
    \/ \E c \in Containers : PauseOp(c)
    \/ \E c \in Containers : ResumeOp(c)
    \/ \E c \in Containers : KillOp(c)
    \/ \E c \in Containers : ExitEvent(c)

Spec == Init /\ [][Next]_vars

\* The same with events on the OOM eventfds.
NextOom ==
    \/ Next
    \/ \E c \in Containers : OomEvent(c)
SpecOom == Init /\ [][NextOom]_vars

\* One top-level container, with restarts of the daemon and with processes
\* that go away while nobody waits for them.
InitRestore == InitWith({2})
NextRestore ==
    \/ NextOom
    \/ \E c \in Containers : ProcessesGone(c)
    \/ DaemonRestart
SpecRestore == InitRestore /\ [][NextRestore]_vars

\* The state is s.
Is(s) ==
    /\ Exists = s.exists
    /\ State = s.state
    /\ LeafCgroups = s.cgroups
    /\ Tclass = s.tclass
    /\ Task = s.task
    /\ Source = s.source
    /\ RawLoopDev = s.loop
    /\ RawRootPid = s.rootpid
    /\ LostAndRestored = s.lost
    /\ RunningChildren = s.rc
    /\ Isolate = s.isolate
    /\ CommandEmpty = s.cmdEmpty
    /\ CgProcs = s.procs
    /\ Frozen = s.frozen
    /\ NetEnabled = s.net
    /\ Crashed = s.crashed
    /\ ExitStatus = s.exitStatus
    /\ OomKilled = s.oomKilled
    /\ DeathTime = s.deathTime
    /\ RespawnCount = s.respawnCount
    /\ RespawnQueued = s.respawnQueued
    /\ RespawnProp = s.respawn
    /\ MaxRespawns = s.maxRespawns
    /\ MemGuarantee = s.memGuarantee
    /\ MemLimit = s.memLimit
    /\ LowLimitKnob = s.knob
    /\ Waiters = s.waiters
    /\ Waiter = s.waiter
    /\ DataState = s.dataState
    /\ SoftLimit = s.softLimit
    /\ Acquired = s.acquired
    /\ Locks = s.locks
    /\ Kv = s.kv
    /\ KvOut = s.kvOut
    /\ PropValue = s.propValue
    /\ KvRemoved = s.kvRemoved
    /\ Tc = s.tc
    /\ Age = s.age
    /\ Netw = s.netw

\* The chain a, a/b, a/b/c of containers that share their namespaces, as
\* created: Stopped, nothing held.
CreatedChain ==
    [exists |-> [c \in Containers |-> c \in {2, 3, 4}],
     state |-> [c \in Containers |-> "stopped"],
     cgroups |-> [c \in Containers |-> FALSE],
     tclass |-> [c \in Containers |-> 0],
     task |-> [c \in Containers |-> NoTask],
     source |-> [c \in Containers |-> FALSE],
     loop |-> [c \in Containers |-> -1],
     rootpid |-> [c \in Containers |-> -1],
     lost |-> [c \in Containers |-> FALSE],
     rc |-> [c \in Containers |-> 0],
     isolate |-> [c \in Containers |-> c \notin {2, 3, 4}],
     cmdEmpty |-> [c \in Containers |-> c \notin {2, 3, 4}],
     procs |-> [c \in Containers |-> FALSE],
     frozen |-> [c \in Containers |-> FALSE],
     net |-> FALSE, crashed |-> FALSE,
     exitStatus |-> [c \in Containers |-> -1],
     oomKilled |-> [c \in Containers |-> FALSE],
     deathTime |-> [c \in Containers |-> FALSE],
     respawnCount |-> [c \in Containers |-> 0],
     respawnQueued |-> [c \in Containers |-> 0],
     respawn |-> [c \in Containers |-> FALSE],
     maxRespawns |-> [c \in Containers |-> -1],
     memGuarantee |-> [c \in Containers |-> 0],
     memLimit |-> [c \in Containers |-> 0],
     knob |-> TRUE,
     waiters |-> [c \in Containers |-> {}],
     waiter |-> [w \in WaiterIds |-> NoWaiter],
     dataState |-> [c \in Containers |-> "stopped"],
     softLimit |-> [c \in Containers |-> "none"],
     acquired |-> [c \in Containers |-> FALSE],
     locks |-> NoLocks,
     kv |-> [c \in Containers |-> <<>>],
     kvOut |-> NoKvOut,
     propValue |-> [c \in Containers |-> [p \in Properties |-> 0]],
     kvRemoved |-> [c \in Containers |-> [removed |-> FALSE, held |-> {}]],
     tc |-> NoTc,
     age |-> NoAge,
     netw |-> NoNetw,
     err |-> "Success"]

\* Start without failures.
StartedFrom(s, c, meta) ==
    Start(s, c, meta, [kill |-> "dead", ub |-> "crash", fail |-> "none"])

\* The chain after Start of a, of a/b as a meta container and of a/b/c; from
\* there on containers are stopped and processes exit or run out of memory.
InitExit ==
    /\ Is(StartedFrom(StartedFrom(StartedFrom(CreatedChain, 2, FALSE), 3, TRUE),
                      4, FALSE))
    /\ last = [op |-> "Start", c |-> 4, err |-> "Success"]
    /\ before = NoStates
NextExit ==
    \/ \E c \in Containers : StopOp(c)
    \/ \E c \in Containers : ExitEvent(c)
    \/ \E c \in Containers : OomEvent(c)
SpecExit == InitExit /\ [][NextExit]_vars

\* One top-level container with respawn = true and max_respawns unlimited or
\* 2, isolated or not.
InitRespawn ==
    /\ \E max \in {-1, 2}, isolate \in BOOLEAN :
          Is([CreatedChain EXCEPT !.exists = [c \in Containers |-> c = 2],
                                 !.isolate[2] = isolate,
                                 !.respawn[2] = TRUE,
                                 !.maxRespawns[2] = max])
    /\ last = [op |-> "Create", c |-> 0, err |-> "Success"]
    /\ before = NoStates
NextRespawn ==
    \/ \E c \in Containers : StartOp(c)
    \/ \E c \in Containers : StopOp(c)
    \/ \E c \in Containers : ExitEvent(c)
    \/ \E c \in Containers : RespawnEvent(c)
SpecRespawn == InitRespawn /\ [][NextRespawn]_vars

\* The tree of four containers and the operations that acquire them.
InitAcquire == InitKernel(Containers, {TRUE})
NextAcquire ==
    \/ \E c \in Containers : AcquireOp(c)
    \/ \E c \in Containers : ReleaseOp(c)
SpecAcquire == InitAcquire /\ [][NextAcquire]_vars

\* The chain a, a/b, a/b/c and two worker threads that stop containers, with
\* and without AllowHolderUnlock.
InitLocks ==
    /\ \E allow \in BOOLEAN : Is([CreatedChain EXCEPT !.locks.allow = allow])
    /\ last = [op |-> "Create", c |-> 0, err |-> "Success"]
    /\ before = NoStates
NextLocks ==
    \/ \E t \in Threads, c \in Containers : EnterStop(t, c)
    \/ \E t \in Threads : ApplyBegin(t)
    \/ \E t \in Threads : LockChild(t)
    \/ \E t \in Threads : CallChild(t)
    \/ \E t \in Threads : LoopEnd(t)
    \/ \E t \in Threads : NetLockTake(t)
    \/ \E t \in Threads : Return(t)
SpecLocks == InitLocks /\ [][NextLocks]_vars

\* The node of one container: records are appended and the node is loaded.
InitKv == InitWith({2})
NextKv ==
    \/ \E c \in Containers, record \in KvRecords : AppendNodeOp(c, record)
    \/ \E c \in Containers : LoadNodeOp(c)
SpecKv == InitKv /\ [][NextKv]_vars

\* The nodes of two containers, each with the record written when the
\* container was created: records are appended and damaged, and the storage is
\* restored.
InitKvRestore ==
    /\ \E x \in KvSingles :
          Is([CreatedChain EXCEPT !.exists = [c \in Containers |-> c \in Created],
                                 !.kv = [c \in Containers |->
                                           IF c \in Created THEN <<x>> ELSE <<>>]])
    /\ last = [op |-> "Create", c |-> 0, err |-> "Success"]
    /\ before = NoStates
NextKvRestore ==
    \/ \E c \in Containers :
          AppendNodeOp(c, CHOOSE x \in KvSingles : x[1] = [key |-> "net_priority", val |-> 2])
    \/ \E c \in Containers, i \in 1..MaxRecords : CorruptOp(c, i)
    \/ \E names \in {<<2, 3>>, <<3, 2>>} : KvRestoreOp(names)
SpecKvRestore == InitKvRestore /\ [][NextKvRestore]_vars

\* One container whose node holds the record of an earlier set: properties
\* are set and the container is restored from its node.
InitPersist ==
    /\ \E v \in KvVals :
          Is(SetValue([CreatedChain EXCEPT !.exists = [c \in Containers |-> c = 2]],
                      2, "cpu_priority", v))
    /\ last = [op |-> "Create", c |-> 0, err |-> "Success"]
    /\ before = NoStates
NextPersist ==
    \/ \E c \in Containers, property \in KvKeys, v \in KvVals : SetValueOp(c, property, v)
    \/ \E c \in Containers : RestoreNodeOp(c)
SpecPersist == InitPersist /\ [][NextPersist]_vars

\* Two containers, parent and child, that are started, paused and destroyed.
InitDestroy == InitWith({2, 3})
NextDestroy ==
    \/ \E c \in Containers : StartOp(c)
    \/ \E c \in Containers : PauseOp(c)
    \/ \E c \in Containers : AcquireOp(c)
    \/ \E c \in Containers : DestroyOp(c)
SpecDestroy == InitDestroy /\ [][NextDestroy]_vars

\* One container that is started, paused, restored after a restart of the
\* daemon and found empty, and whose properties are set.
InitGate == InitWith({2})
NextGate ==
    \/ \E c \in Containers : StartOp(c)
    \/ \E c \in Containers : PauseOp(c)
    \/ \E c \in Containers : ProcessesGone(c)
    \/ DaemonRestart
    \/ \E c \in Containers : SetPropertyOfOp(c)
SpecGate == InitGate /\ [][NextGate]_vars

\* The classes of one interface, in every tree: classes are deleted and added.
InitTc ==
    /\ \E f \in TcTrees : Is([CreatedChain EXCEPT !.tc = [NoTc EXCEPT !.classes = TcHandles,
                                                                      !.parent = f]])
    /\ last = [op |-> "Create", c |-> 0, err |-> "Success"]
    /\ before = NoStates
NextTc ==
    \/ \E handle \in TcHandles : DelTrafficClassOp(handle)
    \/ \E handle \in TcHandles : AddTrafficClassOp(handle)
SpecTc == InitTc /\ [][NextTc]_vars

\* A container in some state with a death time and an aging time, at the
\* moment of its death.
InitAge ==
    /\ \E state \in States, death \in {0, 1000, 1999}, aging \in {0, 1, 2, 2 ^ TimeBits - 1} :
          Is([CreatedChain EXCEPT !.age = [NoAge EXCEPT !.state = state, !.death = death,
                                                        !.aging = aging, !.now = death]])
    /\ last = [op |-> "Create", c |-> 0, err |-> "Success"]
    /\ before = NoStates
NextAge ==
    \/ \E d \in {500, 1000} : TimePasses(d)
    \/ CanRemoveDeadOp
SpecAge == InitAge /\ [][NextAge]_vars

\* The network manager after Prepare on the interfaces that were there.
InitNet ==
    /\ \E present \in SUBSET Interfaces :
          Is([CreatedChain EXCEPT !.netw = NetPrepare(present)])
    /\ last = [op |-> "Prepare", c |-> 0, err |-> "Success"]
    /\ before = NoStates
NextNet ==
    \/ \E l \in Interfaces : LinkAppears(l)
    \/ \E l \in Interfaces : LinkDisappears(l)
    \/ NetUpdateOp
    \/ UpdateTrafficClassesOp
SpecNet == InitNet /\ [][NextNet]_vars

\* One container and the clients that wait for it.
InitWait == InitWith({2})
NextWait ==
    \/ \E c \in Containers : StartOp(c)
    \/ \E c \in Containers : StopOp(c)
    \/ \E c \in Containers : PauseOp(c)
    \/ \E c \in Containers : ResumeOp(c)
    \/ \E c \in Containers : ExitEvent(c)
    \/ \E c \in Containers, w \in WaiterIds : WaitOp(c, w)
    \/ \E w \in WaiterIds, how \in {"gone", "unresolvable"} : ClientDrop(w, how)
SpecWait == InitWait /\ [][NextWait]_vars

\* A tree of four Stopped containers whose hierarchical properties are set,
\* on a kernel with or without memory.low_limit_in_bytes.
InitProperty == InitKernel(Containers, BOOLEAN)
NextProperty == \E c \in Containers : SetPropertyOp(c)
SpecProperty == InitProperty /\ [][NextProperty]_vars

TypeOK ==
    /\ State \in [Containers -> States \cup {"unknown"}]
    /\ \A c \in Containers : State[c] = "unknown" => Crashed
    /\ Exists \in [Containers -> BOOLEAN]
    /\ \A c \in Containers : Task[c].pid \in 0..MaxPid
    /\ \A c \in Containers : RawRootPid[c] \in -1..MaxPid

\* ---------------------------------------------------------------------
\* Properties

\* What the daemon holds in memory and in the nodes, and what the kernel
\* holds: every variable but the record of the last request.
memory ==
    <<Exists, State, LeafCgroups, Tclass, Task, Source, RawLoopDev, RawRootPid,
      LostAndRestored, RunningChildren, Isolate, CommandEmpty, CgProcs, Frozen,
      NetEnabled, Crashed, ExitStatus, OomKilled, DeathTime, RespawnCount,
      RespawnQueued, RespawnProp, MaxRespawns, MemGuarantee, MemLimit,
      LowLimitKnob,
      Waiters,
      Waiter,
      DataState,
      SoftLimit,
      Acquired,
      Locks,
      Kv,
      KvOut,
      PropValue,
      KvRemoved,
      Tc,
      Age,
      Netw>>

\* C1: after a Start that returned an error on one of its failure paths
\* (validation, persistence, resources, loop device, task preparation, task
\* start) the container is Stopped and holds no cgroups, no traffic class, no
\* task, no OOM event source and no loop device.
C1_StartAllOrNothing ==
    \A c \in Containers :
        (last.op = "Start" /\ last.c = c
           /\ last.err \notin {"Success", "InvalidState", "Aborted"})
        => /\ State[c] = "stopped"
           /\ ~LeafCgroups[c]
           /\ Tclass[c] = 0
           /\ ~Task[c].present
           /\ ~Source[c]
           /\ RawLoopDev[c] = -1

\* C2: a Stopped container has no leaf cgroups, no traffic class and no task.
C2_StoppedHoldsNothing ==
    \A c \in Containers :
        (Exists[c] /\ ~Crashed /\ State[c] = "stopped")
        => ~LeafCgroups[c] /\ Tclass[c] = 0 /\ ~Task[c].present

\* C3: after a Stop that returned success the container has no leaf cgroups,
\* no traffic class and no task, and none of its descendants is Running, Meta
\* or Paused.
C3_StopStopsSubtree ==
    \A c \in Containers :
        (last.op = "Stop" /\ last.c = c /\ last.err = "Success")
        => /\ ~LeafCgroups[c] /\ Tclass[c] = 0 /\ ~Task[c].present
           /\ \A d \in Subtree(c) \ {c} :
                 Exists[d] => State[d] \notin {"running", "meta", "paused"}

\* C4 as stated: after a Start that returned success the container has a task
\* whose pid is the persisted raw_root_pid, and its state is Running or Meta.
C4_StartedHasTask ==
    \A c \in Containers :
        (last.op = "Start" /\ last.c = c /\ last.err = "Success")
        => /\ Task[c].present
           /\ Task[c].pid = RawRootPid[c]
           /\ State[c] \in {"running", "meta"}

\* C4: a Start that returns success leaves the container Running or Meta;
\* unless it became Meta with isolate = false it has a running task whose pid
\* is the persisted raw_root_pid; a container that became Meta with
\* isolate = false got no task: its task handle and its raw_root_pid are what
\* they were before the Start.
C4_StartedHasTaskUnlessPlainMeta ==
    [][\A c \in Containers :
          (last'.op = "Start" /\ last'.c = c /\ last'.err = "Success")
          => /\ State'[c] \in {"running", "meta"}
             /\ IF State'[c] = "running" \/ Isolate[c]
                THEN /\ Task'[c].present
                     /\ Task'[c].running
                     /\ Task'[c].pid = RawRootPid'[c]
                ELSE /\ Task'[c] = Task[c]
                     /\ RawRootPid'[c] = RawRootPid[c]]_vars

\* A successful Start left a non-isolated container Meta with no task.
C4_Witness ==
    \E c \in Containers :
        /\ last = [op |-> "Start", c |-> c, err |-> "Success"]
        /\ State[c] = "meta" /\ ~Isolate[c] /\ ~Task[c].present

\* C5: all the children of a Stopped container are Stopped.
C5_StoppedParentStoppedChildren ==
    \A c \in Containers :
        (Exists[c] /\ ~Crashed /\ State[c] = "stopped")
        => \A d \in Containers :
              (Exists[d] /\ ParentOf[d] = c) => State[d] = "stopped"

\* C6: every ancestor (the root containers apart) of a Running, Meta or Paused
\* container is Running, Meta or Paused.
C6_AliveUnderAlive ==
    \A c \in Containers :
        (Exists[c] /\ ~Crashed /\ State[c] \in {"running", "meta", "paused"})
        => \A a \in AncestorsOf(c) : State[a] \in {"running", "meta", "paused"}

\* The request last' records was made in a state of c that the operation does
\* not accept.
Disallowed(c) ==
    /\ last'.c = c
    /\ \/ last'.op = "Start" /\ State[c] # "stopped"
       \/ last'.op = "Pause" /\ State[c] \in {"stopped", "paused", "dead"}
       \/ last'.op = "Resume" /\ State[c] # "paused"
       \/ last'.op = "Kill" /\ State[c] # "running"

\* C7 as stated: Start, Pause, Resume and Kill invoked in a state they do not
\* accept return InvalidState and leave the state of the container as it was.
C7_DisallowedKeepsState ==
    [][\A c \in Containers :
          Disallowed(c) => last'.err = "InvalidState" /\ State'[c] = State[c]]_vars

\* C7: Start, Pause, Resume and Kill invoked in a state they do not accept
\* return InvalidState; the state of the container is as it was, except that
\* Start and Resume first turn a lost-and-restored Running container whose
\* freezer cgroup is empty into a Dead one.
C7_DisallowedKeepsStateUnlessSynced ==
    [][\A c \in Containers :
          Disallowed(c)
          => /\ last'.err = "InvalidState"
             /\ \/ State'[c] = State[c]
                \/ /\ last'.op \in {"Start", "Resume"}
                   /\ LostAndRestored[c] /\ State[c] = "running" /\ ~CgProcs[c]
                   /\ State'[c] = "dead"]_vars

\* A refused Start or Resume on a lost-and-restored container that is Dead.
C7_Witness ==
    \E c \in Containers :
        /\ last.c = c /\ last.op \in {"Start", "Resume"}
        /\ last.err = "InvalidState"
        /\ LostAndRestored[c] /\ State[c] = "dead"

\* C8: Stop invoked on a Stopped container returns InvalidState and changes
\* nothing.
C8_StopOnStopped ==
    [][\A c \in Containers :
          (last'.op = "Stop" /\ last'.c = c /\ State[c] = "stopped")
          => last'.err = "InvalidState" /\ UNCHANGED memory]_vars

\* Stop was refused on a Stopped container.
C8_Witness ==
    \E c \in Containers :
        /\ last = [op |-> "Stop", c |-> c, err |-> "InvalidState"]
        /\ State[c] = "stopped"

\* C9 as stated: Stop invoked on a Paused container ends with the container
\* Stopped and its cgroups, traffic class and task released.
C9_StopOnPausedStops ==
    [][\A c \in Containers :
          (last'.op = "Stop" /\ last'.c = c /\ State[c] = "paused")
          => /\ State'[c] = "stopped"
             /\ ~LeafCgroups'[c] /\ Tclass'[c] = 0 /\ ~Task'[c].present]_vars

\* C9: Stop invoked on a Paused container does not resume it: it returns
\* InvalidState and the container stays Paused with all it holds.
C9_StopOnPausedRefused ==
    [][\A c \in Containers :
          (last'.op = "Stop" /\ last'.c = c /\ State[c] = "paused")
          => last'.err = "InvalidState" /\ UNCHANGED memory]_vars

\* Stop was refused on a Paused container that still holds its cgroups.
C9_Witness ==
    \E c \in Containers :
        /\ last = [op |-> "Stop", c |-> c, err |-> "InvalidState"]
        /\ State[c] = "paused" /\ LeafCgroups[c] /\ Frozen[c]

C11_ResumeUnderPausedRefused ==
    [][/\ \A c \in Containers :
             (last'.op = "Resume" /\ last'.c = c /\ State[c] = "paused"
                /\ \E a \in AncestorsOf(c) : State[a] = "paused")
             => last'.err = "InvalidState" /\ State' = State
       /\ \A d \in Containers :
             (last'.op = "Resume" /\ State[d] = "paused" /\ State'[d] = "running")
             => \A a \in AncestorsOf(d) : State'[a] # "paused"]_vars

\* Resume was refused on a Paused container under a Paused parent.
C11_Witness ==
    \E c \in Containers :
        /\ last = [op |-> "Resume", c |-> c, err |-> "InvalidState"]
        /\ State[c] = "paused"
        /\ \E a \in AncestorsOf(c) : State[a] = "paused"

\* C12: Pause followed by Resume on the same container p is a round trip:
\* after Pause(p) every container of the subtree of p is Paused, and after
\* Resume(p) every container of the subtree is in the state it had before
\* the Pause.
C12_PauseResumeRoundTrip ==
    [][\A p \in Containers :
          /\ last' = [op |-> "Pause", c |-> p, err |-> "Success"]
             => \A d \in Subtree(p) : Exists[d] => State'[d] = "paused"
          /\ (/\ last = [op |-> "Pause", c |-> p, err |-> "Success"]
              /\ last' = [op |-> "Resume", c |-> p, err |-> "Success"])
             => \A d \in Subtree(p) : Exists[d] => State'[d] = before[d]]_vars

\* The sum of the values of property over the containers kids, as a number.
RECURSIVE TotalOver(_, _, _, _)
TotalOver(property, kids, except, exceptVal) ==
    IF kids = <<>> THEN 0
    ELSE (IF Head(kids) = except THEN exceptVal ELSE PropOf(Cur, property, Head(kids)))
         + TotalOver(property, Tail(kids), except, exceptVal)

\* C13: for each hierarchical property (memory_guarantee, memory_limit), a
\* container whose value is above zero has a value at least the sum of the
\* values of its children, whatever SetProperty calls were made.
C13_ParentCoversChildren ==
    \A property \in HierarchicalProperties : \A c \in Containers :
        (Exists[c] /\ PropOf(Cur, property, c) > 0)
        => PropOf(Cur, property, c) >= TotalOver(property, Children(Cur, c), 0, 0)

\* The three conditions of the hierarchical validation, on the values of the
\* children as numbers.
HierarchyRejects(c, property, v) ==
    \/ TotalOver(property, Children(Cur, c), 0, 0) > v
    \/ \E a \in AncestorsOf(c) :
          PropOf(Cur, property, a) # 0 /\ PropOf(Cur, property, a) < v
    \/ /\ PropOf(Cur, property, ParentOf[c]) # 0
       /\ TotalOver(property, Children(Cur, ParentOf[c]), c, v)
            > PropOf(Cur, property, ParentOf[c])

\* C14: setting a hierarchical property of container c to v (on a kernel that
\* supports the property) is rejected with InvalidValue, the value unchanged,
\* exactly when the sum of the values of the children of c exceeds v, or an
\* ancestor has a non-zero value below v, or the non-zero value of the parent
\* is exceeded by the sum over its children with v in the place of c.
C14_RejectedExactlyWhen ==
    [][\A c \in Containers, property \in HierarchicalProperties, v \in PropertyValues :
          (SetPropertyCall(c, property, v)
             /\ (property = "memory_guarantee" => LowLimitKnob))
          => ((last'.err = "InvalidValue" /\ UNCHANGED <<MemGuarantee, MemLimit>>)
              <=> HierarchyRejects(c, property, v))]_vars

\* This step runs Exit on container c to its end: the exit of its root
\* process is delivered and is not skipped as bogus, or an event on its OOM
\* eventfd is delivered.
ExitProcessed(c) ==
    \/ \E pid \in Pids, oomFlag \in BOOLEAN, others \in BOOLEAN :
          /\ ExitDelivery(c, pid, oomFlag, others)
          /\ Task[c].present /\ Task[c].pid = pid
          /\ ~(~oomFlag /\ others /\ Isolate[c])
    \/ \E fd \in Containers :
          OomDelivery(c, fd) /\ Task[c].present /\ Efd(Cur, c) = fd

\* C15: when Exit is processed for a Running or Meta container, the
\* container becomes Dead with its exit status and its death time recorded,
\* and every descendant that was Running or Meta becomes Dead as well.
C15_ExitKillsSubtree ==
    [][\A c \in Containers :
          (State[c] \in {"running", "meta"} /\ ExitProcessed(c))
          => /\ State'[c] = "dead"
             /\ ExitStatus'[c] \in ExitStatuses \cup {SIGKILL}
             /\ DeathTime'[c]
             /\ \A d \in Subtree(c) :
                   (Exists[d] /\ State[d] \in {"running", "meta"})
                   => State'[d] = "dead"]_vars

\* C16: an exit event changes a container only if its pid is the pid of the
\* container's current task: an event with any other pid is discarded, and
\* the state, exit status, death time and OOM flag of the container (and all
\* the rest) are as they were.
C16_OtherPidDiscarded ==
    [][\A c \in Containers, pid \in Pids :
          (/\ last'.op = "Exit" /\ last'.c = c
           /\ ~(Task[c].present /\ Task[c].pid = pid)
           /\ ExitDelivery(c, pid, FALSE, CgProcs[c]))
          => UNCHANGED memory]_vars

\* An exit event was delivered to a Running container that skips no event as
\* bogus, and the container still runs its task.
C16_Witness ==
    \E c \in Containers :
        /\ last = [op |-> "Exit", c |-> c, err |-> "Success"]
        /\ State[c] = "running" /\ ~Isolate[c]
        /\ Task[c].present /\ Task[c].running /\ ExitStatus[c] = -1

\* C17: an event on the OOM eventfd of a Running or Meta container makes the
\* container Dead with oom_killed = true and exit_status = SIGKILL; an event
\* whose fd is not the container's eventfd changes nothing.
C17_OomKills ==
    [][\A c \in Containers, fd \in Containers :
          (last'.op = "Oom" /\ last'.c = c /\ OomDelivery(c, fd))
          => IF Efd(Cur, c) = fd
             THEN State[c] \in {"running", "meta"}
                  => /\ State'[c] = "dead"
                     /\ OomKilled'[c]
                     /\ ExitStatus'[c] = SIGKILL
             ELSE UNCHANGED memory]_vars

\* C18: every Running or Meta container (the roots apart) has an OOM event
\* source registered.
C18_AliveHasOomSource ==
    \A c \in Containers :
        (Exists[c] /\ ~Crashed /\ State[c] \in {"running", "meta"}) => Source[c]

\* C19: a Stopped or Dead container has no OOM event source.
C19_StoppedOrDeadHasNoOomSource ==
    \A c \in Containers :
        (Exists[c] /\ ~Crashed /\ State[c] \in {"stopped", "dead"}) => ~Source[c]

\* C20: Respawn increments respawn_count by exactly one, whatever the outcome
\* of its Start, whenever its internal Stop succeeds.
C20_RespawnCountsOnce ==
    [][\A c \in Containers, kill \in KillOutcomes :
          (/\ last'.op = "Respawn" /\ last'.c = c
           /\ RespawnDelivery(c, kill)
           /\ MayRespawn(Cur, c)
           /\ \E ub \in ExitUb(c) :
                 Stop(Cur, c, [kill |-> kill, ub |-> ub, fail |-> "none"]).err
                   = "Success")
          => RespawnCount'[c] = RespawnCount[c] + 1]_vars

\* A Respawn whose Stop succeeded and whose Start failed has counted.
C20_Witness ==
    \E c \in Containers :
        /\ last.op = "Respawn" /\ last.c = c /\ last.err # "Success"
        /\ State[c] = "stopped" /\ RespawnCount[c] >= 1

\* C21: respawning is bounded by max_respawns.  With respawn = true and
\* max_respawns = N >= 0, respawn_count never exceeds N; an Exit or Respawn
\* event delivered to a Dead container whose respawn_count is N leaves it Dead
\* with the same count; with max_respawns < 0 a Dead container is eligible,
\* and a Respawn event delivered to it respawns it (counting once) unless the
\* respawn fails.
C21_RespawnBounded ==
    /\ [](\A c \in Containers :
            (RespawnProp[c] /\ MaxRespawns[c] >= 0)
            => RespawnCount[c] <= MaxRespawns[c])
    /\ [](\A c \in Containers :
            (State[c] = "dead" /\ RespawnProp[c] /\ MaxRespawns[c] < 0)
            => MayRespawn(Cur, c))
    /\ [][\A c \in Containers :
            (last'.op \in {"Exit", "Respawn"} /\ last'.c = c
               /\ State[c] = "dead" /\ RespawnProp[c])
            => /\ (MaxRespawns[c] >= 0 /\ RespawnCount[c] = MaxRespawns[c])
                  => (State'[c] = "dead" /\ RespawnCount'[c] = RespawnCount[c])
               /\ (MaxRespawns[c] < 0 /\ last'.op = "Respawn")
                  => \/ RespawnCount'[c] = RespawnCount[c] + 1
                     \/ last'.err # "Success"]_vars

\* A Respawn event left in the queue was delivered to a Dead container that
\* had used up its max_respawns, and the container is still Dead.
C21_Witness ==
    \E c \in Containers :
        /\ last = [op |-> "Respawn", c |-> c, err |-> "Success"]
        /\ State[c] = "dead" /\ RespawnProp[c]
        /\ MaxRespawns[c] >= 0 /\ RespawnCount[c] = MaxRespawns[c]

\* C22: a waiter registered while the container is Running stays pending (on
\* the list, not signalled) until the container leaves Running, and is then
\* signalled (Signal is called on it) exactly once, never again on a later
\* state change, as long as its client has not dropped it; a waiter
\* registered while the container is not Running is signalled immediately and
\* is never put on the list.
C22_WaiterSignalledOnce ==
    /\ [](\A w \in WaiterIds :
            /\ Waiter[w].signals <= 1
            /\ (Waiter[w].held /\ Waiter[w].queued /\ ~Crashed)
               => /\ Waiter[w].signals = 0
                  /\ w \in Waiters[Waiter[w].on]
                  /\ State[Waiter[w].on] = "running"
            /\ (Waiter[w].made /\ ~Waiter[w].queued)
               => (Waiter[w].signals = 1 /\ \A c \in Containers : w \notin Waiters[c]))
    /\ [][\A w \in WaiterIds, c \in Containers :
            /\ (~Waiter[w].made /\ Waiter'[w].made /\ Waiter'[w].on = c)
               => (Waiter'[w].queued <=> State[c] = "running")
            /\ (w \in Waiters[c] /\ Waiter[w].held
                  /\ State[c] = "running" /\ State'[c] # "running" /\ ~Crashed')
               => Waiter'[w].signals = 1]_vars

\* A waiter that was pending while its container ran was signalled when the
\* container died, and the container went on from Dead to Stopped.
C22_Witness ==
    \E w \in WaiterIds :
        /\ Waiter[w].queued /\ Waiter[w].signals = 1
        /\ Waiter[w].sawState = "dead"
        /\ State[Waiter[w].on] = "stopped"
        /\ last.op = "Stop"

\* C23: waiters are notified of a state change after the new state was stored
\* in the container and written to the state data: what a signalled waiter
\* finds in the data is the state of the container at that moment, never the
\* state the container has left.
C23_NotifiedAfterStateStored ==
    /\ [](\A w \in WaiterIds :
            Waiter[w].signals > 0 => Waiter[w].sawData = Waiter[w].sawState)
    /\ [][\A w \in WaiterIds :
            (Waiter[w].queued /\ Waiter'[w].signals > Waiter[w].signals)
            => Waiter'[w].sawData # State[Waiter[w].on]]_vars

\* A pending waiter was signalled by the Pause of its container and found
\* the state Paused in the data.
C23_Witness ==
    \E w \in WaiterIds :
        /\ Waiter[w].queued /\ Waiter[w].signals = 1
        /\ Waiter[w].sawData = "paused"
        /\ last = [op |-> "Pause", c |-> Waiter[w].on, err |-> "Success"]

\* C24: after every completed operation that changes whether a container is
\* Running, the memory soft limit of each Meta container is the default if it
\* has a Running descendant and 1 MiB otherwise.
C24_MetaSoftLimit ==
    \A c \in Containers :
        (Exists[c] /\ ~Crashed /\ State[c] = "meta"
           /\ last.op \in {"Start", "Stop", "Exit", "Pause", "Resume", "Respawn"}
           /\ last.err = "Success")
        => SoftLimit[c] =
              IF \E d \in Subtree(c) \ {c} : Exists[d] /\ State[d] = "running"
              THEN "default" ELSE "1MiB"

\* C25: Acquire returns true and sets the flag of the container exactly when
\* neither the container nor any of its ancestors is acquired; otherwise it
\* returns false and changes no flag.  IsAcquired of a container is true
\* exactly when the container or one of its ancestors has the flag set.
C25_AcquireExclusive ==
    /\ [](\A c \in Containers :
            IsAcquired(Cur, c) <=> \E d \in {c} \cup AncestorsOf(c) : Acquired[d])
    /\ [][\A c \in Containers :
            (last'.op = "Acquire" /\ last'.c = c /\ AcquireOp(c))
            => IF \E d \in {c} \cup AncestorsOf(c) : Acquired[d]
               THEN last'.err = "Busy" /\ Acquired' = Acquired
               ELSE /\ last'.err = "Success"
                    /\ Acquired' = [Acquired EXCEPT ![c] = TRUE]]_vars

\* Acquire of a container whose own flag is clear was refused because its
\* grandparent is acquired.
C25_Witness ==
    /\ last = [op |-> "Acquire", c |-> 4, err |-> "Busy"]
    /\ Acquired[2] /\ ~Acquired[3] /\ ~Acquired[4]

\* C26: locks are acquired only in the order holder lock, container lock,
\* network lock: no thread acquires the holder lock while it holds a
\* container lock, and none acquires a container lock or the holder lock
\* while it holds the network lock.
C26_LockOrder ==
    [][\A t \in Threads :
          /\ (Locks'.holder = t /\ Locks.holder # t)
             => (Locks.net # t /\ \A c \in Containers : Locks.container[c] # t)
          /\ \A c \in Containers :
                (Locks'.container[c] = t /\ Locks.container[c] # t)
                => Locks.net # t]_vars

\* The pairs of the records of a file, in the order they were written.
RECURSIVE Flat(_)
Flat(file) == IF file = <<>> THEN <<>> ELSE Head(file) \o Flat(Tail(file))

\* C27: loading a node merges its records with last-write-wins per key: for
\* every key written, the loaded node contains the key exactly once, with the
\* value written last for it.
C27_LastWriteWins ==
    \A c \in Containers :
        (last = [op |-> "LoadNode", c |-> c, err |-> "Success"] /\ Kv[c] # <<>>)
        => \A i \in DOMAIN Flat(Kv[c]) :
              LET key == Flat(Kv[c])[i].key
                  at == {j \in DOMAIN KvOut.node : KvOut.node[j].key = key}
                  written == {j \in DOMAIN Flat(Kv[c]) : Flat(Kv[c])[j].key = key}
              IN  /\ Cardinality(at) = 1
                  /\ \A j \in at :
                        KvOut.node[j].val =
                           Flat(Kv[c])[CHOOSE m \in written : \A n \in written : n <= m].val

\* C28: a corrupt record at any position of a node's file ends the load of
\* that node with an error that is surfaced, and the restore skips only that
\* container: the nodes of all other containers are loaded and returned.
C28_CorruptNodeSkipped ==
    last.op = "KvRestore" =>
        \A c \in Containers :
            Exists[c] =>
               IF \E i \in DOMAIN Kv[c] : Kv[c][i] = Corrupt
               THEN KvOut.map[c] = Absent /\ KvOut.err # "Success"
               ELSE KvOut.map[c] = [loaded |-> TRUE, node |-> LoadNode(Kv[c]).node]

C30_KvRemovedAfterFree ==
    /\ \A c \in Containers : KvRemoved[c].removed => KvRemoved[c].held = {}
    /\ \A c \in Containers :
          last.op = "Destroy" /\ last.c = c /\ last.err # "Success"
          => ~KvRemoved[c].removed

SyncInputs == [kill : KillOutcomes, ub : UbOutcomes, fail : {"none"}]

\* C32: a lost-and-restored container whose freezer cgroup is empty is made
\* Dead by the first sync of its state, whatever active state (Running, Meta
\* or Paused) it was restored in; one whose cgroup still has processes is left
\* unchanged by the sync.
C32_LostDemoted ==
    \A c \in Containers, in \in SyncInputs :
        Live(c) /\ LostAndRestored[c] /\ State[c] \in {"running", "meta", "paused"}
        => IF CgProcs[c]
           THEN SyncStateWithCgroup(Cur, c, in) = Cur
           ELSE SyncStateWithCgroup(Cur, c, in).crashed
                \/ SyncStateWithCgroup(Cur, c, in).state[c] = "dead"

\* The descendants of class handle in the tree parent.
RECURSIVE TcDescendants(_, _)
TcDescendants(parent, handle) ==
    UNION {{h} \cup TcDescendants(parent, h) : h \in {k \in TcHandles : parent[k] = handle}}

\* The elements of a sequence from the back.
RECURSIVE Reverse(_)
Reverse(q) == IF q = <<>> THEN <<>> ELSE Append(Reverse(Tail(q)), Head(q))

\* C33: when the delete of a traffic class fails because it is busy, its
\* subtree is deleted in post-order: every class is deleted only after all of
\* its descendants that were there, the requested class is deleted last, and
\* the deletion stops with an error at the first delete that fails.
C33_PostOrder ==
    last.op = "DelTrafficClass" /\ Tc.handles # <<>>
    => LET deleted == Tc.deleted
           handles == Tc.handles
           subtree == ({Tc.handle} \cup TcDescendants(Tc.parent, Tc.handle)) \cap Tc.was
       IN  /\ {handles[i] : i \in 1..Len(handles)} = subtree
           /\ \A i \in 1..Len(deleted) :
                 \A d \in TcDescendants(Tc.parent, deleted[i]) \cap Tc.was :
                    \E j \in 1..(i - 1) : deleted[j] = d
           /\ Tc.classes = Tc.was \ {deleted[i] : i \in 1..Len(deleted)}
           /\ IF Tc.failAt \in subtree
              THEN /\ last.err # "Success"
                   /\ \E k \in 1..Len(handles) :
                         /\ handles[k] = Tc.failAt
                         /\ deleted = Reverse(SubSeq(handles, k + 1, Len(handles)))
              ELSE /\ last.err = "Success"
                   /\ deleted = Reverse(handles)
                   /\ deleted[Len(deleted)] = Tc.handle

\* A busy class with a grandchild was deleted with its whole subtree.
C33_Witness ==
    /\ last = [op |-> "DelTrafficClass", c |-> 1, err |-> "Success"]
    /\ Len(Tc.deleted) = 4
    /\ Tc.parent[4] = 3 /\ Tc.parent[3] = 2

\* C34: a Dead container can be removed exactly when now >= death_time +
\* aging_time: CanRemoveDead is false for a container that is not Dead and
\* for a Dead one before death_time + aging_time has fully elapsed, and true
\* from then on.
C34_RemovedWhenAged ==
    Age.asked
    => (Age.can <=> Age.state = "dead" /\ Age.now >= Age.death + Age.aging * 1000)

\* C35: after a network update in which interfaces were added and removed,
\* every new interface has the root qdisc, the cgroup filter and the default
\* and porto-root classes, removed interfaces are no longer in the manager's
\* set, and the class creation that follows covers exactly the current
\* interfaces.
C35_UpdateCoversInterfaces ==
    /\ last.op = "Update" /\ last.err = "Success"
       => /\ Netw.links = Netw.present
          /\ Netw.ifaces = Netw.present
          /\ Netw.present \subseteq Netw.qdisc
          /\ Netw.present \subseteq Netw.rootClasses
    /\ last.op = "UpdateTrafficClasses" /\ Netw.fresh
       => last.err = "Success" /\ Netw.covered = Netw.present

\* C36: with networking enabled the assertions of PrepareNetwork never fail:
\* whenever Start reaches PrepareNetwork the traffic class handle of the
\* container is null and that of its parent is not.
C36_PrepareNetworkAsserts ==
    \A c \in Containers :
        /\ NetEnabled /\ Live(c) /\ State[c] = "stopped" /\ ParentsStarted(c)
        /\ ~SyncMayExit(c)
        /\ \E meta \in MayStartAs(c) : meta \/ ~CommandEmpty[c]
        => ~PrepareNetwork(Cur, c, [kill |-> "dead", ub |-> "crash", fail |-> "none"]).crashed

\* C37: Exit is only invoked on a container that has a task handle: the
\* container that the synchronisation with the cgroup demotes has one, and
\* no exit or OOM event ends in the null dereference of Exit (an event is
\* delivered to a container that has a task, so the dereference is that of
\* a descendant reached through ExitChildren).
C37_ExitHasTask ==
    /\ \A c \in Containers : Live(c) /\ SyncMayExit(c) => Task[c].present
    /\ last.op \in {"Exit", "Oom"} => last.err # "Aborted"

\* A running container with a running child under Pause and Resume, the
\* exit of a process and the restart of the daemon.
InitCount ==
    /\ Is(StartedFrom(StartedFrom([CreatedChain EXCEPT
                                      !.exists = [c \in Containers |-> c \in {2, 3}]],
                                  2, FALSE), 3, FALSE))
    /\ last = [op |-> "Start", c |-> 3, err |-> "Success"]
    /\ before = NoStates
NextCount ==
    \/ \E c \in Containers : PauseOp(c)
    \/ \E c \in Containers : ResumeOp(c)
    \/ \E c \in Containers : ExitEvent(c)
    \/ DaemonRestart
SpecCount == InitCount /\ [][NextCount]_vars

\* The number of Running containers in the subtree of c, c included.
RunningInSubtree(c) ==
    Cardinality({d \in Subtree(c) : Exists[d] /\ State[d] = "running"})

C39_RestoreKeepsState ==
    [][last'.op = "Restore" =>
        \A c \in Containers :
            Exists[c] /\ Exists'[c] /\ ~Crashed /\ ~Crashed' =>
                /\ DataState[c] = "stopped" => State'[c] = "stopped"
                /\ DataState[c] = "dead" => State'[c] = "dead"
                /\ DataState[c] = "running" /\ CgProcs[c] =>
                       State'[c] = "running" /\ RawRootPid'[c] = RawRootPid[c]]_vars

\* Destroy that returned left the flag of its container clear.
DestroyReleases ==
    last.op = "Destroy" /\ ~Crashed => ~Acquired[last.c]

\* C40: no container is acquired together with one of its ancestors, and a
\* Destroy that returned, with or without an error, left the flag of its
\* container clear.
C40_AcquiredChainExclusive ==
    /\ \A c \in Containers : \A d \in AncestorsOf(c) :
           ~(Live(c) /\ Acquired[c] /\ Acquired[d])
    /\ DestroyReleases

====
